---- MODULE Spec2Model ----
(***************************************************************************)
(* Normalization, scoring and clustering engine of the trend backend.      *)
(*                                                                         *)
(*   services/clustering.service.ts   (src/unnamed/part_018)               *)
(*   services/normalization.service.ts                                     *)
(*                                                                         *)
(* The tables normalizedPost and trendCluster are sequences of rows whose  *)
(* index is the row id; clusterId = 0 stands for SQL NULL.  Every awaited  *)
(* persistence call is one atomic step of the run that issues it, and the  *)
(* synchronous code between two awaits belongs to the step that follows.   *)
(* JavaScript numbers are IEEE-754 doubles: the arithmetic that divides or *)
(* multiplies by a fraction is modelled bit-exactly by the F* operators.    *)
(***************************************************************************)
EXTENDS Integers, Sequences, FiniteSets, TLC

VARIABLES
    posts,          \* normalizedPost rows
    clusters,       \* trendCluster rows
    pc,             \* per run: idle | find | write | assign | done | threw
    batch,          \* per run: ids returned by findMany in clusterAll
    groups,         \* per run: the entries of the Map clusterGroups
    gi,             \* per run: index of the group being upserted
    found,          \* per run: the local variable `cluster` (row id, 0 = null)
    results,        \* per run: the `results` array (row ids)
    failed,         \* per run: cluster keys passed to logger.error in the catch
    startClusters,  \* per run: trendCluster as it was when the run began
    runs,           \* clusterAll invocations started so far
    faults,         \* persistence calls that were made to fail so far
    now,            \* Date.now() seen by the growth estimator
    input,          \* argument of the pure function under study
    output          \* its result in a 1-tuple, <<>> before it is applied

vars == <<posts, clusters, pc, batch, groups, gi, found, results, failed,
          startClusters, runs, faults, now, input, output>>

engineVars == <<posts, clusters, pc, batch, groups, gi, found, results, failed,
                startClusters, runs, faults>>

(***************************************************************************)
(* Bounds of the exploration.                                              *)
(***************************************************************************)
Procs == {1, 2}
MaxPosts == 6
OverlapPosts == 4
MaxRuns == 2
MaxFaults == 1

None == "none"

(***************************************************************************)
(* Small helpers on sequences.                                             *)
(***************************************************************************)
Range(s) == {s[i] : i \in 1..Len(s)}

Min(a, b) == IF a < b THEN a ELSE b
Max(a, b) == IF a > b THEN a ELSE b

\* Array.prototype.slice(0, n)
Slice(s, n) == SubSeq(s, 1, Min(n, Len(s)))

\* the elements of s at the indices satisfying keep, in order (Array.filter)
RECURSIVE FilterIdx(_, _, _)
FilterIdx(s, keep, i) ==
    IF i > Len(s) THEN <<>>
    ELSE IF keep[i] THEN <<s[i]>> \o FilterIdx(s, keep, i + 1)
    ELSE FilterIdx(s, keep, i + 1)

\* [...new Set(s)]: first occurrences, in insertion order
Unique(s) ==
    FilterIdx(s, [i \in 1..Len(s) |-> \A j \in 1..(i - 1) : s[j] # s[i]], 1)

RECURSIVE Flatten(_)
Flatten(ss) == IF ss = <<>> THEN <<>> ELSE Head(ss) \o Flatten(Tail(ss))

RECURSIVE SumSeq(_)
SumSeq(s) == IF s = <<>> THEN 0 ELSE Head(s) + SumSeq(Tail(s))

\* a stable sort of s by ascending key[i] (Array.prototype.sort is stable)
StableSortBy(s, key) ==
    LET pos(i) == 1 + Cardinality({j \in 1..Len(s) :
                        key[j] < key[i] \/ (key[j] = key[i] /\ j < i)})
    IN [p \in 1..Len(s) |-> s[CHOOSE i \in 1..Len(s) : pos(i) = p]]

(***************************************************************************)
(* IEEE-754 binary64 arithmetic, as far as the engine uses it.  Integers   *)
(* too big for TLC are sequences of 13-bit limbs, most significant first.  *)
(* A double is [neg, m, e] of value m * 2^e, where m is five limbs holding *)
(* the 53-bit significand in their top 53 bits (the first limb is at least *)
(* 4096, the last is 0 or 4096); zero has m = <<>>.  Every operation       *)
(* rounds to nearest, ties to even, like the hardware.                     *)
(***************************************************************************)
LimbBits == 13
LimbBase == 8192
MantLimbs == 5
\* the weight, in the last limb of m, of the last bit of the significand
MantUnit == 4096
\* base-LimbBase digits computed after the point by a division
FracLimbs == 7

Pow2Table == <<1, 2, 4, 8, 16, 32, 64, 128, 256, 512, 1024, 2048, 4096, 8192>>

Pow2(k) == Pow2Table[k + 1]

\* the number of bits of v, 1 <= v < LimbBase
BitLen(v) == CHOOSE k \in 1..LimbBits : Pow2(k - 1) <= v /\ v < Pow2(k)

RECURSIVE NatLimbs(_)
NatLimbs(n) == IF n = 0 THEN <<>> ELSE Append(NatLimbs(n \div LimbBase), n % LimbBase)

\* the number (below 2^31) written by at most three limbs
LimbsNat(limbs) ==
    IF Len(limbs) = 0 THEN 0
    ELSE IF Len(limbs) = 1 THEN limbs[1]
    ELSE IF Len(limbs) = 2 THEN limbs[1] * LimbBase + limbs[2]
    ELSE (limbs[1] * LimbBase + limbs[2]) * LimbBase + limbs[3]

\* column sums cols[1..i] with their carries propagated
RECURSIVE CarryLimbs(_, _, _)
CarryLimbs(cols, i, carry) ==
    IF i = 0 THEN NatLimbs(carry)
    ELSE LET t == cols[i] + carry
         IN Append(CarryLimbs(cols, i - 1, t \div LimbBase), t % LimbBase)

\* the next `count` base-LimbBase digits of r / b, appended to `limbs`
RECURSIVE DivLimbs(_, _, _, _)
DivLimbs(r, b, limbs, count) ==
    IF count = 0 THEN [limbs |-> limbs, rem |-> r]
    ELSE DivLimbs((r * LimbBase) % b, b, Append(limbs, (r * LimbBase) \div b), count - 1)

\* limbs * 2^sh for 0 <= sh < LimbBits, when the first limb has room for the shift
ShiftLeft(limbs, sh) ==
    [i \in 1..Len(limbs) |->
        ((limbs[i] * Pow2(sh)) % LimbBase)
        + (IF i < Len(limbs) THEN limbs[i + 1] \div Pow2(LimbBits - sh) ELSE 0)]

\* floor(limbs / 2^sh) for 0 <= sh < LimbBits
ShiftRight(limbs, sh) ==
    [i \in 1..Len(limbs) |->
        (limbs[i] \div Pow2(sh))
        + (IF i > 1 THEN (limbs[i - 1] % Pow2(sh)) * Pow2(LimbBits - sh) ELSE 0)]

AllZero(limbs) == \A i \in 1..Len(limbs) : limbs[i] = 0

FZero == [neg |-> FALSE, m |-> <<>>, e |-> 0]

\* limbs * 2^e, plus a non-zero remainder below the last limb when `sticky`,
\* rounded to nearest-even on 53 bits
FRound(neg, limbs, sticky, e) ==
    IF AllZero(limbs) THEN FZero
    ELSE LET first == CHOOSE k \in 1..Len(limbs) :
                          limbs[k] # 0 /\ \A l \in 1..(k - 1) : limbs[l] = 0
             sig == SubSeq(limbs, first, Len(limbs))
             sh == LimbBits - BitLen(sig[1])
             norm == ShiftLeft(sig, sh)
             n == Len(norm)
         IN IF n < MantLimbs
            THEN [neg |-> neg, m |-> norm \o [i \in 1..(MantLimbs - n) |-> 0],
                  e |-> e - sh - LimbBits * (MantLimbs - n)]
            ELSE LET last == norm[MantLimbs]
                     guard == (last \div (MantUnit \div 2)) % 2
                     odd == (last \div MantUnit) % 2
                     st == \/ sticky
                           \/ last % (MantUnit \div 2) # 0
                           \/ \E i \in (MantLimbs + 1)..n : norm[i] # 0
                     up == guard = 1 /\ (st \/ odd = 1)
                     cols == [i \in 1..MantLimbs |->
                                IF i < MantLimbs THEN norm[i]
                                ELSE odd * MantUnit + (IF up THEN MantUnit ELSE 0)]
                     m1 == CarryLimbs(cols, MantLimbs, 0)
                     e1 == e - sh + LimbBits * (n - MantLimbs)
                 IN IF Len(m1) > MantLimbs
                    THEN [neg |-> neg, m |-> <<MantUnit, 0, 0, 0, 0>>, e |-> e1 + 1]
                    ELSE [neg |-> neg, m |-> m1, e |-> e1]

\* a / b for integers a and b > 0 (the operator / of two integer-valued numbers)
FDivInt(a, b) ==
    IF a = 0 THEN FZero
    ELSE LET n == IF a < 0 THEN -a ELSE a
             q == DivLimbs(n % b, b, NatLimbs(n \div b), FracLimbs)
         IN FRound(a < 0, q.limbs, q.rem # 0, -(LimbBits * FracLimbs))

FInt(n) == FDivInt(n, 1)

\* f * k for an integer 0 <= k < 2^17
FMulInt(f, k) ==
    IF f.m = <<>> \/ k = 0 THEN FZero
    ELSE FRound(f.neg, CarryLimbs([i \in 1..MantLimbs |-> f.m[i] * k], MantLimbs, 0),
                FALSE, f.e)

\* f * g
FMul(f, g) ==
    IF f.m = <<>> \/ g.m = <<>> THEN FZero
    ELSE LET x == f.m
             y == g.m
             n == MantLimbs
             \* x[i] * y[j] weighs LimbBase^(2n - i - j): column i + j of 2n
             col(p) == x[1] * (IF p - 1 \in 1..n THEN y[p - 1] ELSE 0)
                     + x[2] * (IF p - 2 \in 1..n THEN y[p - 2] ELSE 0)
                     + x[3] * (IF p - 3 \in 1..n THEN y[p - 3] ELSE 0)
                     + x[4] * (IF p - 4 \in 1..n THEN y[p - 4] ELSE 0)
                     + x[5] * (IF p - 5 \in 1..n THEN y[p - 5] ELSE 0)
             cols == [p \in 1..(2 * n) |-> col(p)]
         IN FRound(f.neg # g.neg, CarryLimbs(cols, 2 * n, 0), FALSE, f.e + g.e)

\* f + g for two doubles of the same sign
FAdd(f, g) ==
    IF f.m = <<>> THEN g
    ELSE IF g.m = <<>> THEN f
    ELSE LET hi == IF f.e >= g.e THEN f ELSE g
             lo == IF f.e >= g.e THEN g ELSE f
             d == hi.e - lo.e
         IN IF d > LimbBits * (MantLimbs + 1)
            THEN FRound(hi.neg, hi.m \o <<0>>, TRUE, hi.e - LimbBits)
            ELSE LET \* hi.m * 2^d, on the limbs of lo.m and d \div LimbBits + 1 more
                     a == ShiftLeft(<<0>> \o hi.m \o [i \in 1..(d \div LimbBits) |-> 0],
                                    d % LimbBits)
                     b == [i \in 1..(Len(a) - MantLimbs) |-> 0] \o lo.m
                     cols == [i \in 1..Len(a) |-> a[i] + b[i]]
                 IN FRound(hi.neg, CarryLimbs(cols, Len(cols), 0), FALSE, lo.e)

\* the bits of m below the binary point, when some of m is above it (e < 0)
FDropped(f) == -f.e

\* the integer part of |f|, for |f| < 2^31
FIntPart(f) ==
    IF FDropped(f) >= LimbBits * MantLimbs THEN 0
    ELSE LET kept == SubSeq(f.m, 1, MantLimbs - (FDropped(f) \div LimbBits))
         IN LimbsNat(SubSeq(ShiftRight(kept, FDropped(f) % LimbBits),
                            Len(kept) - Min(Len(kept), 3) + 1, Len(kept)))

\* whether |f| has a fractional part
FHasFrac(f) ==
    IF FDropped(f) >= LimbBits * MantLimbs THEN TRUE
    ELSE LET q == FDropped(f) \div LimbBits
             r == FDropped(f) % LimbBits
         IN \/ \E i \in (MantLimbs - q + 1)..MantLimbs : f.m[i] # 0
            \/ f.m[MantLimbs - q] % Pow2(r) # 0

\* Math.floor
FFloor(f) ==
    IF f.m = <<>> THEN 0
    ELSE IF f.neg THEN -FIntPart(f) - (IF FHasFrac(f) THEN 1 ELSE 0)
    ELSE FIntPart(f)

\* Math.min(cap, Math.floor(f)) for f >= 0 of any size
FMinFloor(cap, f) ==
    IF f.m # <<>> /\ LimbBits * MantLimbs + f.e > 30 THEN cap
    ELSE Min(cap, FFloor(f))

\* Math.ceil
FCeil(f) ==
    IF f.m = <<>> THEN 0
    ELSE IF f.neg THEN -FIntPart(f)
    ELSE FIntPart(f) + (IF FHasFrac(f) THEN 1 ELSE 0)

(***************************************************************************)
(* Tags.  A tag is a string of the vocabulary below, listed in the order   *)
(* of Array.prototype.sort() (UTF-16 code units).  TLC has no access to    *)
(* the characters of a string, so the two tests the engine makes on the    *)
(* characters of a tag are tabulated for the vocabulary.                   *)
(***************************************************************************)
TagOrder ==
    <<"#boho", "#chic", "#denim", "#fashion", "#fashionweek", "#ootd", "#runway",
      "#streetstyle", "#style", "#vintage", "dress", "silk">>

Rank(t) == CHOOSE i \in 1..Len(TagOrder) : TagOrder[i] = t

\* Array.prototype.sort() without a comparator
SortTags(s) == StableSortBy(s, [i \in 1..Len(s) |-> Rank(s[i])])

\* tag.includes('fashion') || tag.includes('style') || tag.includes('ootd')
IsFashionTag(t) == t \in {"#fashion", "#fashionweek", "#ootd", "#streetstyle", "#style"}

\* el.replace('#', '').replace(/_/g, ' '), first letter upper-cased
Humanize(el) ==
    CASE el = "#boho" -> "Boho"
      [] el = "#chic" -> "Chic"
      [] el = "#denim" -> "Denim"
      [] el = "#fashion" -> "Fashion"
      [] el = "#fashionweek" -> "Fashionweek"
      [] el = "#ootd" -> "Ootd"
      [] el = "#runway" -> "Runway"
      [] el = "#streetstyle" -> "Streetstyle"
      [] el = "#style" -> "Style"
      [] el = "#vintage" -> "Vintage"
      [] el = "dress" -> "Dress"
      [] el = "silk" -> "Silk"

\* Array.prototype.join(sep)
RECURSIVE Join(_, _)
Join(s, sep) ==
    IF s = <<>> THEN ""
    ELSE IF Len(s) = 1 THEN s[1]
    ELSE s[1] \o sep \o Join(Tail(s), sep)

\* crypto.createHash('md5').update(s).digest('hex'): the digest is not computed;
\* it is a value that is equal for equal inputs and different for different ones.
Md5Hex(s) == <<"md5", s>>

(***************************************************************************)
(* clustering.service.ts: the pure helpers.                                *)
(***************************************************************************)
MinClusterSize == 3
TopTags == 3
MaxCommon == 5
FindManyTake == 1000
PendingInsight == "AI insight pending..."

generateClusterKey(hashtags, keywords) ==
    LET topHashtags == SortTags(Slice(hashtags, TopTags))
        topKeywords == SortTags(Slice(keywords, TopTags))
        combined == Join(topHashtags \o topKeywords, "_")
    IN Md5Hex(combined)

\* Math.ceil(n * 0.3)
F03 == FDivInt(3, 10)
CommonThreshold(n) == FCeil(FMulInt(F03, n))

\* findCommonElements without its sort
findCommonElementsUnsorted(arrays) ==
    IF Len(arrays) = 0 THEN <<>>
    ELSE LET uniques == [i \in 1..Len(arrays) |-> Unique(arrays[i])]
             items == Unique(Flatten(uniques))
             count == [i \in 1..Len(items) |->
                         Cardinality({a \in 1..Len(arrays) : items[i] \in Range(arrays[a])})]
             threshold == CommonThreshold(Len(arrays))
             kept == FilterIdx([i \in 1..Len(items) |-> i],
                               [i \in 1..Len(items) |-> count[i] >= threshold], 1)
         IN Slice([i \in 1..Len(kept) |-> items[kept[i]]], MaxCommon)

findCommonElements(arrays) ==
    IF Len(arrays) = 0 THEN <<>>
    ELSE LET uniques == [i \in 1..Len(arrays) |-> Unique(arrays[i])]
             \* the keys of `counts`, in insertion order
             items == Unique(Flatten(uniques))
             count == [i \in 1..Len(items) |->
                         Cardinality({a \in 1..Len(arrays) : items[i] \in Range(arrays[a])})]
             threshold == CommonThreshold(Len(arrays))
             kept == FilterIdx([i \in 1..Len(items) |-> i],
                               [i \in 1..Len(items) |-> count[i] >= threshold], 1)
             sorted == StableSortBy(kept, [i \in 1..Len(kept) |-> -count[kept[i]]])
         IN Slice([i \in 1..Len(sorted) |-> items[sorted[i]]], MaxCommon)

F04 == FDivInt(4, 10)
F02 == FDivInt(2, 10)

\* calculateClusterTrendScore without the boost for the number of posts
calculateClusterTrendScoreNoBoost(ps) ==
    LET avgVirality == FDivInt(SumSeq([i \in 1..Len(ps) |-> ps[i].viralityScore]), Len(ps))
        avgRelevance == FDivInt(SumSeq([i \in 1..Len(ps) |-> ps[i].relevanceScore]), Len(ps))
        score == FAdd(FMul(avgVirality, F04), FMul(avgRelevance, F04))
    IN Min(100, Max(0, FFloor(score)))

calculateClusterTrendScore(ps) ==
    LET avgVirality == FDivInt(SumSeq([i \in 1..Len(ps) |-> ps[i].viralityScore]), Len(ps))
        avgRelevance == FDivInt(SumSeq([i \in 1..Len(ps) |-> ps[i].relevanceScore]), Len(ps))
        volumeBoost == Min(20, Len(ps) * 2)
        score == FAdd(FAdd(FMul(avgVirality, F04), FMul(avgRelevance, F04)),
                      FMul(FInt(volumeBoost), F02))
    IN Min(100, Max(0, FFloor(score)))

generateClusterTitle(hashtags, keywords) ==
    LET elements == Slice(hashtags, 2) \o Slice(keywords, 2)
    IN IF Len(elements) = 0 THEN "Fashion Trend"
       ELSE Join([i \in 1..Len(elements) |-> Humanize(elements[i])], " & ")

DayMs == 86400000
GrowthTake == 100

calculateGrowth(ps, nowMs) ==
    IF Len(ps) < 2 THEN 0
    ELSE LET oneDayAgo == nowMs - DayMs
             twoDaysAgo == nowMs - 2 * DayMs
             recentPosts == Cardinality({i \in 1..Len(ps) : ps[i].postedAt > oneDayAgo})
             previousPosts == Cardinality({i \in 1..Len(ps) :
                                  ps[i].postedAt > twoDaysAgo /\ ps[i].postedAt <= oneDayAgo})
         IN IF previousPosts = 0 THEN (IF recentPosts > 0 THEN 100 ELSE 0)
            ELSE FFloor(FMulInt(FDivInt(recentPosts - previousPosts, previousPosts), 100))

(***************************************************************************)
(* normalization.service.ts: the text functions.  A text is a sequence of  *)
(* characters, each a string of length one; a tag cut out of a text is a   *)
(* sequence of characters too.                                             *)
(***************************************************************************)
\* the characters \s matches and trim() removes
WhiteSpace == {" ", "\n", "\t"}

\* the characters \w matches
WordChars ==
    {"a", "b", "c", "d", "e", "f", "g", "h", "i", "j", "k", "l", "m", "n", "o", "p", "q",
     "r", "s", "t", "u", "v", "w", "x", "y", "z", "S", "H", "0", "1", "_"}

\* String.prototype.toLowerCase, one character
LowerChar(c) == IF c = "S" THEN "s" ELSE IF c = "H" THEN "h" ELSE c

ToLowerCase(t) == [i \in 1..Len(t) |-> LowerChar(t[i])]

\* the characters of t at the positions of `keep`, in order
SelectAt(t, keep) ==
    [j \in 1..Cardinality(keep) |->
        t[CHOOSE k \in keep : Cardinality({x \in keep : x <= k}) = j]]

HttpScheme == <<"h", "t", "t", "p", ":", "/", "/">>
HttpsScheme == <<"h", "t", "t", "p", "s", ":", "/", "/">>

\* the length of the match of /https?:\/\// at position i, 0 when there is none
SchemeAt(t, i) ==
    IF i + Len(HttpScheme) - 1 <= Len(t) /\ SubSeq(t, i, i + Len(HttpScheme) - 1) = HttpScheme
    THEN Len(HttpScheme)
    ELSE IF i + Len(HttpsScheme) - 1 <= Len(t)
            /\ SubSeq(t, i, i + Len(HttpsScheme) - 1) = HttpsScheme
    THEN Len(HttpsScheme)
    ELSE 0

\* /https?:\/\/[^\s]+/ matches at position i: the scheme and one character or more
UrlAt(t, i) ==
    /\ SchemeAt(t, i) > 0
    /\ i + SchemeAt(t, i) <= Len(t)
    /\ t[i + SchemeAt(t, i)] \notin WhiteSpace

\* .replace(/https?:\/\/[^\s]+/g, ''): a match runs to the end of its word, so a
\* character goes when a match starts at or before it in its word
RemoveUrls(t) ==
    SelectAt(t, {k \in 1..Len(t) :
                    ~\E i \in 1..k : UrlAt(t, i) /\ \A j \in i..k : t[j] \notin WhiteSpace})

\* .replace(/X+/g, c) for a set X of characters
CollapseRuns(t, X, c) ==
    LET first == {k \in 1..Len(t) : t[k] \notin X \/ k = 1 \/ t[k - 1] \notin X}
        kept == SelectAt([k \in 1..Len(t) |-> k], first)
    IN [j \in 1..Len(kept) |-> IF t[kept[j]] \in X THEN c ELSE t[kept[j]]]

\* String.prototype.trim
Trim(t) ==
    SelectAt(t, {k \in 1..Len(t) :
                    /\ \E i \in 1..k : t[i] \notin WhiteSpace
                    /\ \E j \in k..Len(t) : t[j] \notin WhiteSpace})

\* cleanText with the ends trimmed before the URLs are removed
cleanTextTrimFirst(text) ==
    CollapseRuns(CollapseRuns(RemoveUrls(Trim(text)), WhiteSpace, " "), {"\n"}, "\n")

cleanText(text) ==
    Trim(CollapseRuns(CollapseRuns(RemoveUrls(text), WhiteSpace, " "), {"\n"}, "\n"))

\* text.match(/P[\w]+/g) for a one-character prefix P: the matches, in order
PrefixedWords(t, prefix) ==
    LET starts == {i \in 1..(Len(t) - 1) : t[i] = prefix /\ t[i + 1] \in WordChars}
        order == SelectAt([k \in 1..Len(t) |-> k], starts)
        last(i) == CHOOSE j \in (i + 1)..Len(t) :
                       /\ \A k \in (i + 1)..j : t[k] \in WordChars
                       /\ j = Len(t) \/ t[j + 1] \notin WordChars
    IN [m \in 1..Len(order) |-> SubSeq(t, order[m], last(order[m]))]

extractHashtags(text) ==
    LET matches == PrefixedWords(text, "#")
    IN Unique([m \in 1..Len(matches) |-> ToLowerCase(matches[m])])

extractMentions(text) == Unique(PrefixedWords(text, "@"))

fashionKeywords ==
    <<<<"f", "a", "s", "h", "i", "o", "n">>,
      <<"s", "t", "y", "l", "e">>,
      <<"o", "u", "t", "f", "i", "t">>,
      <<"o", "o", "t", "d">>,
      <<"s", "t", "r", "e", "e", "t", "w", "e", "a", "r">>,
      <<"l", "u", "x", "u", "r", "y">>,
      <<"d", "e", "s", "i", "g", "n", "e", "r">>,
      <<"t", "r", "e", "n", "d">>,
      <<"v", "i", "n", "t", "a", "g", "e">>,
      <<"s", "u", "s", "t", "a", "i", "n", "a", "b", "l", "e">>,
      <<"m", "i", "n", "i", "m", "a", "l", "i", "s", "t">>,
      <<"m", "a", "x", "i", "m", "a", "l", "i", "s", "t">>,
      <<"a", "e", "s", "t", "h", "e", "t", "i", "c">>,
      <<"l", "o", "o", "k", "b", "o", "o", "k">>,
      <<"w", "a", "r", "d", "r", "o", "b", "e">>,
      <<"a", "c", "c", "e", "s", "s", "o", "r", "i", "e", "s">>,
      <<"j", "e", "w", "e", "l", "r", "y">>,
      <<"s", "h", "o", "e", "s">>,
      <<"s", "n", "e", "a", "k", "e", "r", "s">>,
      <<"d", "r", "e", "s", "s">>,
      <<"s", "u", "i", "t">>,
      <<"b", "l", "a", "z", "e", "r">>,
      <<"d", "e", "n", "i", "m">>,
      <<"l", "e", "a", "t", "h", "e", "r">>,
      <<"s", "i", "l", "k">>,
      <<"c", "o", "t", "t", "o", "n">>,
      <<"r", "u", "n", "w", "a", "y">>,
      <<"c", "o", "u", "t", "u", "r", "e">>,
      <<"c", "o", "l", "l", "e", "c", "t", "i", "o", "n">>,
      <<"c", "a", "p", "s", "u", "l", "e">>,
      <<"t", "h", "r", "i", "f", "t">>,
      <<"v", "i", "n", "t", "a", "g", "e">>>>

\* String.prototype.includes
Includes(word, part) ==
    \E i \in 1..(Len(word) - Len(part) + 1) : SubSeq(word, i, i + Len(part) - 1) = part

\* text.split(/\s+/) without the empty strings it yields for an empty text and
\* around leading or trailing white space (no keyword is in an empty string)
Words(t) ==
    LET starts == {i \in 1..Len(t) : t[i] \notin WhiteSpace /\ (i = 1 \/ t[i - 1] \in WhiteSpace)}
        order == SelectAt([k \in 1..Len(t) |-> k], starts)
        last(i) == CHOOSE j \in i..Len(t) :
                       /\ \A k \in i..j : t[k] \notin WhiteSpace
                       /\ j = Len(t) \/ t[j + 1] \in WhiteSpace
    IN [m \in 1..Len(order) |-> SubSeq(t, order[m], last(order[m]))]

IsFashionWord(word) == \E k \in 1..Len(fashionKeywords) : Includes(word, fashionKeywords[k])

extractKeywords(text) ==
    Slice(Unique(SelectSeq(Words(ToLowerCase(text)), IsFashionWord)), 10)

(***************************************************************************)
(* normalization.service.ts: the scoring engine.                           *)
(***************************************************************************)
\* calculateViralityScore without the fallback of views to engagement * 10
calculateViralityScoreNoFallback(post) ==
    LET engagement == post.likes + post.comments * 2 + post.shares * 3
        views == post.views
        engagementRate == IF views > 0 THEN FMulInt(FDivInt(engagement, views), 100) ELSE FZero
        score == FMinFloor(100, FMulInt(engagementRate, 1000))
    IN Max(0, score)

calculateViralityScore(post) ==
    LET engagement == post.likes + post.comments * 2 + post.shares * 3
        views == IF post.views # 0 THEN post.views ELSE engagement * 10
        engagementRate == IF views > 0 THEN FMulInt(FDivInt(engagement, views), 100) ELSE FZero
        score == FMinFloor(100, FMulInt(engagementRate, 1000))
    IN Max(0, score)

\* calculateRelevanceScore without its Math.min(100, ...)
calculateRelevanceScoreUncapped(textLen, hashtags, keywords) ==
    LET fashionHashtags == SelectSeq(hashtags, IsFashionTag)
        score == 50 + Len(fashionHashtags) * 10 + Len(keywords) * 5
                    + (IF textLen > 50 THEN 10 ELSE 0)
    IN Max(0, score)

calculateRelevanceScore(textLen, hashtags, keywords) ==
    LET fashionHashtags == SelectSeq(hashtags, IsFashionTag)
        score == 50 + Len(fashionHashtags) * 10 + Len(keywords) * 5
                    + (IF textLen > 50 THEN 10 ELSE 0)
    IN Min(100, Max(0, score))

calculateQualityScore(post, textLen) ==
    LET score == 50 + (IF post.mediaCount > 0 THEN 20 ELSE 0)
                    + (IF textLen > 30 /\ textLen < 500 THEN 15 ELSE 0)
                    + (IF post.likes > 100 THEN 10 ELSE 0)
                    + (IF post.comments > 10 THEN 5 ELSE 0)
    IN Min(100, Max(0, score))

(***************************************************************************)
(* NormalizationService.normalizePost: score the record and insert the     *)
(* normalizedPost row, unassigned.  A raw record carries the length of its *)
(* cleaned text and the tags extracted from it.                            *)
(***************************************************************************)
NormalizedRow(raw) ==
    [hashtags |-> raw.hashtags,
     keywords |-> raw.keywords,
     postedAt |-> raw.postedAt,
     viralityScore |-> calculateViralityScore(raw),
     relevanceScore |-> calculateRelevanceScore(raw.textLen, raw.hashtags, raw.keywords),
     qualityScore |-> calculateQualityScore(raw, raw.textLen),
     clusterId |-> 0]

(***************************************************************************)
(* The raw records of the exploration: three kinds of record.  The first   *)
(* two share a fingerprint and differ in their fourth hashtag and in their *)
(* posting time; the third has a fingerprint of its own.                   *)
(***************************************************************************)
RawKinds ==
    << [hashtags |-> <<"#boho", "#chic", "#denim">>, keywords |-> <<"dress">>,
        textLen |-> 40, mediaCount |-> 1, likes |-> 1, comments |-> 0, shares |-> 0,
        views |-> 2000, postedAt |-> 2],
       [hashtags |-> <<"#boho", "#chic", "#denim", "#ootd">>, keywords |-> <<"dress">>,
        textLen |-> 60, mediaCount |-> 0, likes |-> 200, comments |-> 11, shares |-> 1,
        views |-> 0, postedAt |-> 1],
       [hashtags |-> <<"#style">>, keywords |-> <<>>,
        textLen |-> 0, mediaCount |-> 0, likes |-> 0, comments |-> 0, shares |-> 0,
        views |-> 0, postedAt |-> 1] >>

\* the rows normalizePost inserts for them
EngineRows == [k \in 1..Len(RawKinds) |-> NormalizedRow(RawKinds[k])]

KindOf(row) == CHOOSE k \in 1..Len(RawKinds) : EngineRows[k] = [row EXCEPT !.clusterId = 0]

\* Some clusterAll of the runs `ps` can still read the table.  normalizePost
\* commutes with every step of a run but its findMany, so it is explored only
\* where a read can follow.
ReadCanFollow(ps) == runs < MaxRuns /\ \E p \in ps : pc[p] \in {"idle", "done", "threw"}

\* Rows inserted with no read in between are interchangeable: of their orders
\* only the one by kind is explored.  A read has seen the last row when the row
\* is in a batch or assigned.
InsertOrdered(k, ps) ==
    IF posts = <<>> THEN TRUE
    ELSE IF KindOf(posts[Len(posts)]) <= k THEN TRUE
    ELSE IF posts[Len(posts)].clusterId # 0 THEN TRUE
    ELSE \E p \in ps : Len(posts) \in Range(batch[p])

\* normalizePost of a record of kind k, while the table has fewer than `cap` rows
NormalizePost(k, ps, cap) ==
    /\ Len(posts) < cap
    /\ ReadCanFollow(ps)
    /\ InsertOrdered(k, ps)
    /\ posts' = Append(posts, NormalizedRow(RawKinds[k]))
    /\ UNCHANGED <<clusters, pc, batch, groups, gi, found, results, failed,
                   startClusters, runs, faults, now, input, output>>

(***************************************************************************)
(* ClusteringService.clusterAll and groupPostsIntoClusters.                *)
(***************************************************************************)
KeyOf(id) == generateClusterKey(posts[id].hashtags, posts[id].keywords)

\* findMany({where: {clusterId: null}, orderBy: {postedAt: 'desc'}, take: 1000});
\* rows of equal postedAt come in id order
UnclusteredPosts ==
    LET all == [i \in 1..Len(posts) |-> i]
        ids == FilterIdx(all, [i \in 1..Len(posts) |-> posts[i].clusterId = 0], 1)
    IN Slice(StableSortBy(ids, [i \in 1..Len(ids) |-> -posts[ids[i]].postedAt]), FindManyTake)

\* the entries of the Map clusterGroups, in insertion order
GroupPosts(ids) ==
    LET keys == [i \in 1..Len(ids) |-> KeyOf(ids[i])]
        distinct == Unique(keys)
    IN [g \in 1..Len(distinct) |->
           [clusterKey |-> distinct[g],
            posts |-> FilterIdx(ids, [i \in 1..Len(ids) |-> keys[i] = distinct[g]], 1)]]

\* LargeEnough with the threshold one too low
LargeEnoughPairs(group) == Len(group.posts) >= MinClusterSize - 1

\* if (groupPosts.length < 3) continue;
LargeEnough(group) == Len(group.posts) >= MinClusterSize

\* the next group after index i that the loop does not skip, 0 when the loop ends
NextGroup(gs, i) ==
    IF \E j \in (i + 1)..Len(gs) : LargeEnough(gs[j])
    THEN CHOOSE j \in (i + 1)..Len(gs) :
             LargeEnough(gs[j]) /\ \A k \in (i + 1)..(j - 1) : ~LargeEnough(gs[k])
    ELSE 0

CurGroup(p) == groups[p][gi[p]]

\* findUnique({where: {clusterKey}}): the id of the row, 0 for null
ClusterIdByKey(rows, key) ==
    IF \E c \in 1..Len(rows) : rows[c].clusterKey = key
    THEN CHOOSE c \in 1..Len(rows) : rows[c].clusterKey = key
    ELSE 0

\* trendCluster.clusterKey is a unique column: an insert of a key that is stored fails
UniqueKeyViolation(rows, key) == \E c \in 1..Len(rows) : rows[c].clusterKey = key

\* the rows of the group's posts, as clusterAll read them
GroupRows(group) == [i \in 1..Len(group.posts) |-> posts[group.posts[i]]]

\* lines 87-99 of createOrUpdateCluster
GroupMetrics(rows) ==
    [commonHashtags |-> findCommonElements([i \in 1..Len(rows) |-> rows[i].hashtags]),
     commonKeywords |-> findCommonElements([i \in 1..Len(rows) |-> rows[i].keywords]),
     trendScore |-> calculateClusterTrendScore(rows),
     firstSeenAt |-> CHOOSE t \in {rows[i].postedAt : i \in 1..Len(rows)} :
                         \A i \in 1..Len(rows) : t <= rows[i].postedAt,
     lastSeenAt |-> CHOOSE t \in {rows[i].postedAt : i \in 1..Len(rows)} :
                         \A i \in 1..Len(rows) : t >= rows[i].postedAt]

\* UpdatedCluster that overwrites firstSeenAt as well
UpdatedClusterFirstSeen(row, m) ==
    [row EXCEPT !.commonHashtags = m.commonHashtags,
                !.commonKeywords = m.commonKeywords,
                !.trendScore = m.trendScore,
                !.firstSeenAt = m.firstSeenAt,
                !.lastSeenAt = m.lastSeenAt,
                !.isActive = TRUE]

\* trendCluster.update({where: {id}, data: {...}})
UpdatedCluster(row, m) ==
    [row EXCEPT !.commonHashtags = m.commonHashtags,
                !.commonKeywords = m.commonKeywords,
                !.trendScore = m.trendScore,
                !.lastSeenAt = m.lastSeenAt,
                !.isActive = TRUE]

\* CreatedCluster storing the digest of the title where the fingerprint belongs
CreatedClusterTitleKey(key, m) ==
    [clusterKey |-> Md5Hex(generateClusterTitle(m.commonHashtags, m.commonKeywords)),
     commonHashtags |-> m.commonHashtags,
     commonKeywords |-> m.commonKeywords,
     title |-> generateClusterTitle(m.commonHashtags, m.commonKeywords),
     aiInsight |-> PendingInsight,
     trendScore |-> m.trendScore,
     growthPercentage |-> 0,
     firstSeenAt |-> m.firstSeenAt,
     lastSeenAt |-> m.lastSeenAt,
     isActive |-> TRUE]

\* CreatedCluster with the time of the newest member as firstSeenAt
CreatedClusterNewestFirst(key, m) ==
    [clusterKey |-> key,
     commonHashtags |-> m.commonHashtags,
     commonKeywords |-> m.commonKeywords,
     title |-> generateClusterTitle(m.commonHashtags, m.commonKeywords),
     aiInsight |-> PendingInsight,
     trendScore |-> m.trendScore,
     growthPercentage |-> 0,
     firstSeenAt |-> m.lastSeenAt,
     lastSeenAt |-> m.lastSeenAt,
     isActive |-> TRUE]

\* trendCluster.create({data: {...}})
CreatedCluster(key, m) ==
    [clusterKey |-> key,
     commonHashtags |-> m.commonHashtags,
     commonKeywords |-> m.commonKeywords,
     title |-> generateClusterTitle(m.commonHashtags, m.commonKeywords),
     aiInsight |-> PendingInsight,
     trendScore |-> m.trendScore,
     growthPercentage |-> 0,
     firstSeenAt |-> m.firstSeenAt,
     lastSeenAt |-> m.lastSeenAt,
     isActive |-> TRUE]

\* AssignedPosts that assigns the first MinClusterSize ids only
AssignedPostsFirstFew(rows, ids, clusterId) ==
    [i \in 1..Len(rows) |->
        IF i \in Range(Slice(ids, MinClusterSize))
        THEN [rows[i] EXCEPT !.clusterId = clusterId] ELSE rows[i]]

\* AssignedPosts with the where clause of updateMany left out
AssignedPostsEverywhere(rows, ids, clusterId) ==
    [i \in 1..Len(rows) |-> [rows[i] EXCEPT !.clusterId = clusterId]]

\* normalizedPost.updateMany({where: {id: {in: ids}}, data: {clusterId}})
AssignedPosts(rows, ids, clusterId) ==
    [i \in 1..Len(rows) |->
        IF i \in Range(ids) THEN [rows[i] EXCEPT !.clusterId = clusterId] ELSE rows[i]]

\* the loop moves on to the next group it does not skip, or clusterAll returns
Advance(p) ==
    LET g == NextGroup(groups[p], gi[p])
    IN /\ gi' = [gi EXCEPT ![p] = g]
       /\ pc' = [pc EXCEPT ![p] = IF g = 0 THEN "done" ELSE "find"]
       /\ found' = [found EXCEPT ![p] = 0]

Returned(p) == pc[p] \in {"idle", "done", "threw"}

ClusterAllStart(p) ==
    /\ Returned(p)
    /\ runs < MaxRuns
    /\ LET ids == UnclusteredPosts
           gs == GroupPosts(ids)
           g == NextGroup(gs, 0)
       IN /\ batch' = [batch EXCEPT ![p] = ids]
          /\ groups' = [groups EXCEPT ![p] = gs]
          /\ gi' = [gi EXCEPT ![p] = g]
          /\ pc' = [pc EXCEPT ![p] = IF g = 0 THEN "done" ELSE "find"]
    /\ found' = [found EXCEPT ![p] = 0]
    /\ results' = [results EXCEPT ![p] = <<>>]
    /\ failed' = [failed EXCEPT ![p] = <<>>]
    /\ startClusters' = [startClusters EXCEPT ![p] = clusters]
    /\ runs' = runs + 1
    /\ UNCHANGED <<posts, clusters, faults, now, input, output>>

\* findMany rejects: nothing in clusterAll catches it
ClusterAllReadFails(p) ==
    /\ Returned(p)
    /\ runs < MaxRuns
    /\ faults < MaxFaults
    /\ pc' = [pc EXCEPT ![p] = "threw"]
    /\ batch' = [batch EXCEPT ![p] = <<>>]
    /\ groups' = [groups EXCEPT ![p] = <<>>]
    /\ gi' = [gi EXCEPT ![p] = 0]
    /\ found' = [found EXCEPT ![p] = 0]
    /\ results' = [results EXCEPT ![p] = <<>>]
    /\ failed' = [failed EXCEPT ![p] = <<>>]
    /\ startClusters' = [startClusters EXCEPT ![p] = clusters]
    /\ runs' = runs + 1
    /\ faults' = faults + 1
    /\ UNCHANGED <<posts, clusters, now, input, output>>

FindCluster(p) ==
    /\ pc[p] = "find"
    /\ found' = [found EXCEPT ![p] = ClusterIdByKey(clusters, CurGroup(p).clusterKey)]
    /\ pc' = [pc EXCEPT ![p] = "write"]
    /\ UNCHANGED <<posts, clusters, batch, groups, gi, results, failed,
                   startClusters, runs, faults, now, input, output>>

UpdateCluster(p) ==
    /\ pc[p] = "write"
    /\ found[p] # 0
    /\ clusters' = [clusters EXCEPT ![found[p]] =
                       UpdatedCluster(@, GroupMetrics(GroupRows(CurGroup(p))))]
    /\ pc' = [pc EXCEPT ![p] = "assign"]
    /\ UNCHANGED <<posts, batch, groups, gi, found, results, failed,
                   startClusters, runs, faults, now, input, output>>

CreateCluster(p) ==
    /\ pc[p] = "write"
    /\ found[p] = 0
    /\ ~UniqueKeyViolation(clusters, CurGroup(p).clusterKey)
    /\ clusters' = Append(clusters, CreatedCluster(CurGroup(p).clusterKey,
                                        GroupMetrics(GroupRows(CurGroup(p)))))
    /\ found' = [found EXCEPT ![p] = Len(clusters) + 1]
    /\ pc' = [pc EXCEPT ![p] = "assign"]
    /\ UNCHANGED <<posts, batch, groups, gi, results, failed,
                   startClusters, runs, faults, now, input, output>>

\* the insert hits the unique key: create rejects, the catch logs, the loop goes on
CreateConflicts(p) ==
    /\ pc[p] = "write"
    /\ found[p] = 0
    /\ UniqueKeyViolation(clusters, CurGroup(p).clusterKey)
    /\ failed' = [failed EXCEPT ![p] = Append(@, CurGroup(p).clusterKey)]
    /\ Advance(p)
    /\ UNCHANGED <<posts, clusters, batch, groups, results,
                   startClusters, runs, faults, now, input, output>>

AssignPosts(p) ==
    /\ pc[p] = "assign"
    /\ posts' = AssignedPosts(posts, CurGroup(p).posts, found[p])
    /\ results' = [results EXCEPT ![p] = Append(@, found[p])]
    /\ Advance(p)
    /\ UNCHANGED <<clusters, batch, groups, failed,
                   startClusters, runs, faults, now, input, output>>

\* PersistenceFails with no catch around the upsert: the rejection leaves clusterAll
PersistenceFailsUncaught(p) ==
    /\ pc[p] \in {"find", "write", "assign"}
    /\ faults < MaxFaults
    /\ faults' = faults + 1
    /\ failed' = [failed EXCEPT ![p] = Append(@, groups[p][gi[p]].clusterKey)]
    /\ pc' = [pc EXCEPT ![p] = "threw"]
    /\ UNCHANGED <<posts, clusters, batch, groups, gi, found, results,
                   startClusters, runs, now, input, output>>

\* PersistenceFails where a rejected updateMany has assigned the posts all the same
PersistenceFailsAssigned(p) ==
    /\ pc[p] \in {"find", "write", "assign"}
    /\ faults < MaxFaults
    /\ faults' = faults + 1
    /\ failed' = [failed EXCEPT ![p] = Append(@, CurGroup(p).clusterKey)]
    /\ posts' = IF pc[p] = "assign" THEN AssignedPosts(posts, CurGroup(p).posts, found[p])
                ELSE posts
    /\ Advance(p)
    /\ UNCHANGED <<clusters, batch, groups, results,
                   startClusters, runs, now, input, output>>

\* findUnique, update, create or updateMany rejects for another reason: the catch
\* around createOrUpdateCluster logs it and the loop goes on
PersistenceFails(p) ==
    /\ pc[p] \in {"find", "write", "assign"}
    /\ faults < MaxFaults
    /\ faults' = faults + 1
    /\ failed' = [failed EXCEPT ![p] = Append(@, CurGroup(p).clusterKey)]
    /\ Advance(p)
    /\ UNCHANGED <<posts, clusters, batch, groups, results,
                   startClusters, runs, now, input, output>>

ClusterStep(p) ==
    \/ ClusterAllStart(p)
    \/ ClusterAllReadFails(p)
    \/ FindCluster(p)
    \/ UpdateCluster(p)
    \/ CreateCluster(p)
    \/ CreateConflicts(p)
    \/ AssignPosts(p)
    \/ PersistenceFails(p)

EngineInit ==
    /\ posts = <<>>
    /\ clusters = <<>>
    /\ pc = [p \in Procs |-> "idle"]
    /\ batch = [p \in Procs |-> <<>>]
    /\ groups = [p \in Procs |-> <<>>]
    /\ gi = [p \in Procs |-> 0]
    /\ found = [p \in Procs |-> 0]
    /\ results = [p \in Procs |-> <<>>]
    /\ failed = [p \in Procs |-> <<>>]
    /\ startClusters = [p \in Procs |-> <<>>]
    /\ runs = 0
    /\ faults = 0

Init ==
    /\ EngineInit
    /\ now = 0
    /\ input = None
    /\ output = <<>>

Next ==
    \/ \E k \in 1..Len(RawKinds) : NormalizePost(k, Procs, OverlapPosts)
    \/ \E p \in Procs : ClusterStep(p)

\* clusterAll runs that may overlap (the scheduled pipeline and a manual run),
\* with records arriving at any moment
Spec == Init /\ [][Next]_vars

\* One clusterAll at a time: the scheduled pipeline alone.  A run that is alone
\* never hits the unique key, since findUnique has just answered null.
NextSeq ==
    \/ \E k \in 1..Len(RawKinds) : NormalizePost(k, {1}, MaxPosts)
    \/ ClusterAllStart(1)
    \/ ClusterAllReadFails(1)
    \/ FindCluster(1)
    \/ UpdateCluster(1)
    \/ CreateCluster(1)
    \/ AssignPosts(1)
    \/ PersistenceFails(1)

SpecSeq == Init /\ [][NextSeq]_vars

\* the scheduled pipeline over a few records: enough for one group to fail and to
\* be read again by the runs that follow
RetryPosts == 4

NextRetry ==
    \/ \E k \in 1..Len(RawKinds) : NormalizePost(k, {1}, RetryPosts)
    \/ ClusterAllStart(1)
    \/ ClusterAllReadFails(1)
    \/ FindCluster(1)
    \/ UpdateCluster(1)
    \/ CreateCluster(1)
    \/ AssignPosts(1)
    \/ PersistenceFails(1)

SpecRetry == Init /\ [][NextRetry]_vars

\* A record of the text "#fashionweek #runway" with 1000 likes and no views: both
\* words are hashtags, and both are keywords, since they contain 'fashion' and
\* 'runway'.
FashionWeekRecord ==
    [hashtags |-> <<"#fashionweek", "#runway">>, keywords |-> <<"#fashionweek", "#runway">>,
     textLen |-> 20, mediaCount |-> 0, likes |-> 1000, comments |-> 0, shares |-> 0,
     views |-> 0, postedAt |-> 1]

NormalizeFashionWeek ==
    /\ Len(posts) < MaxPosts
    /\ ReadCanFollow({1})
    /\ posts' = Append(posts, NormalizedRow(FashionWeekRecord))
    /\ UNCHANGED <<clusters, pc, batch, groups, gi, found, results, failed,
                   startClusters, runs, faults, now, input, output>>

\* the scheduled pipeline alone, fed with such records only
NextFashionWeek ==
    \/ NormalizeFashionWeek
    \/ ClusterAllStart(1)
    \/ ClusterAllReadFails(1)
    \/ FindCluster(1)
    \/ UpdateCluster(1)
    \/ CreateCluster(1)
    \/ AssignPosts(1)
    \/ PersistenceFails(1)

SpecFashionWeek == Init /\ [][NextFashionWeek]_vars

(***************************************************************************)
(* clusterAll over a store that holds two clusters: the state a first run  *)
(* leaves after three records of the first kind and three of the third     *)
(* were normalized, and the records that arrive after it.                  *)
(***************************************************************************)
MaxArrivals == 4

SettledPosts ==
    [i \in 1..(2 * MinClusterSize) |->
        IF i <= MinClusterSize THEN [EngineRows[1] EXCEPT !.clusterId = 1]
        ELSE [EngineRows[3] EXCEPT !.clusterId = 2]]

SettledGroups ==
    <<[clusterKey |-> generateClusterKey(EngineRows[1].hashtags, EngineRows[1].keywords),
       posts |-> [i \in 1..MinClusterSize |-> i]],
      [clusterKey |-> generateClusterKey(EngineRows[3].hashtags, EngineRows[3].keywords),
       posts |-> [i \in 1..MinClusterSize |-> MinClusterSize + i]]>>

SettledClusters ==
    [g \in 1..2 |->
        CreatedCluster(SettledGroups[g].clusterKey,
                       GroupMetrics([i \in 1..MinClusterSize |->
                                        SettledPosts[SettledGroups[g].posts[i]]]))]

SettledInit ==
    /\ posts = SettledPosts
    /\ clusters = SettledClusters
    /\ pc = [p \in Procs |-> IF p = 1 THEN "done" ELSE "idle"]
    /\ batch = [p \in Procs |-> IF p = 1 THEN [i \in 1..(2 * MinClusterSize) |-> i] ELSE <<>>]
    /\ groups = [p \in Procs |-> IF p = 1 THEN SettledGroups ELSE <<>>]
    /\ gi = [p \in Procs |-> 0]
    /\ found = [p \in Procs |-> 0]
    /\ results = [p \in Procs |-> IF p = 1 THEN <<1, 2>> ELSE <<>>]
    /\ failed = [p \in Procs |-> <<>>]
    /\ startClusters = [p \in Procs |-> <<>>]
    /\ runs = 1
    /\ faults = 0
    /\ now = 0
    /\ input = None
    /\ output = <<>>

\* the scheduled pipeline from there on: both fingerprints are stored, so the
\* create branch is not taken
NextSettled ==
    \/ \E k \in 1..Len(RawKinds) : NormalizePost(k, {1}, 2 * MinClusterSize + MaxArrivals)
    \/ ClusterAllStart(1)
    \/ ClusterAllReadFails(1)
    \/ FindCluster(1)
    \/ UpdateCluster(1)
    \/ AssignPosts(1)
    \/ PersistenceFails(1)

SpecSettled == SettledInit /\ [][NextSettled]_vars

(***************************************************************************)
(* ai-insight.service.ts: generateAllInsights over the stored clusters.    *)
(* batch[1] holds the rows findMany returned, gi[1] the position of the    *)
(* loop, results[1] the rows generateInsight returned, failed[1] the ids   *)
(* of the clusters whose error the loop logged, output the ids of the      *)
(* clusters generateInsight was called for, faults the writes the store    *)
(* rejected.                                                               *)
(***************************************************************************)
MaxClusters == 2

UnableInsight == "Unable to generate insight"

\* generateFallbackInsight that builds an empty string when the growth is not
\* positive
generateFallbackInsightBlank(cluster) ==
    IF cluster.growthPercentage > 0
    THEN "This trend featuring " \o Join(Slice(cluster.commonHashtags, 3), ", ")
         \o " is up " \o ToString(cluster.growthPercentage) \o "% this week"
         \o ". Fashion enthusiasts are embracing this style across social media."
    ELSE ""

generateFallbackInsight(cluster) ==
    LET hashtags == Join(Slice(cluster.commonHashtags, 3), ", ")
        growth == IF cluster.growthPercentage > 0
                  THEN "up " \o ToString(cluster.growthPercentage) \o "% this week"
                  ELSE "trending now"
    IN "This trend featuring " \o hashtags \o " is " \o growth
       \o ". Fashion enthusiasts are embracing this style across social media."

\* what JSON.parse(response || '{}') yields when it does not throw: title and
\* insight, each "" when the reply does not carry it
Replies == [title : {"", "Runway Revival"}, insight : {"", "Runway looks are back."}]

\* the data of the update of lines 109-115
InsightUpdate(cluster, parsed) ==
    [title |-> IF parsed.title # "" THEN parsed.title ELSE cluster.title,
     aiInsight |-> IF parsed.insight # "" THEN parsed.insight ELSE UnableInsight]

\* the rows generateAllInsights fetches: those that hold the pending sentinel
PendingClusters ==
    LET ids == {i \in 1..Len(clusters) : clusters[i].aiInsight = PendingInsight}
        order == SelectAt([k \in 1..Len(clusters) |-> k], ids)
    IN [j \in 1..Len(order) |-> [id |-> order[j], row |-> clusters[order[j]]]]

\* clusters as clusterAll and the growth calculation leave them: no insight yet
InsightHashtags ==
    {<<>>, <<"#boho", "#chic">>, <<"#boho", "#chic", "#denim", "#fashion">>}

InsightGrowths == {0 - 50, 0, 25}

InsightRow(hashtags, growth) ==
    [CreatedCluster(generateClusterKey(hashtags, <<>>),
                    [commonHashtags |-> hashtags, commonKeywords |-> <<>>, trendScore |-> 50,
                     firstSeenAt |-> 1, lastSeenAt |-> 1])
       EXCEPT !.growthPercentage = growth]

InsightTables ==
    {t \in UNION {[1..n -> {InsightRow(h, g) : h \in InsightHashtags, g \in InsightGrowths}] :
                     n \in 1..MaxClusters} :
        \A i, j \in 1..Len(t) : i # j => t[i].clusterKey # t[j].clusterKey}

InsightInit ==
    /\ posts = <<>>
    /\ clusters \in InsightTables
    /\ pc = [p \in Procs |-> "idle"]
    /\ batch = [p \in Procs |-> <<>>]
    /\ groups = [p \in Procs |-> <<>>]
    /\ gi = [p \in Procs |-> 0]
    /\ found = [p \in Procs |-> 0]
    /\ results = [p \in Procs |-> <<>>]
    /\ failed = [p \in Procs |-> <<>>]
    /\ startClusters = [p \in Procs |-> <<>>]
    /\ runs = 0
    /\ faults = 0
    /\ now = 0
    /\ input = None
    /\ output = <<>>

\* lines 19-36: the fetch and the empty result list
GenerateAllInsightsStart(p) ==
    /\ pc[p] = "idle"
    /\ runs < MaxRuns
    /\ batch' = [batch EXCEPT ![p] = PendingClusters]
    /\ gi' = [gi EXCEPT ![p] = 1]
    /\ results' = [results EXCEPT ![p] = <<>>]
    /\ pc' = [pc EXCEPT ![p] = "insights"]
    /\ runs' = runs + 1
    /\ UNCHANGED <<posts, clusters, groups, found, failed, startClusters, faults, now,
                   input, output>>

InsightCall(p) == pc[p] = "insights" /\ gi[p] <= Len(batch[p])

\* what every pass of the loop of lines 37-44 does, whatever the call did
InsightCalled(p) ==
    /\ gi' = [gi EXCEPT ![p] = gi[p] + 1]
    /\ output' = Append(output, batch[p][gi[p]].id)
    /\ UNCHANGED <<posts, pc, batch, groups, found, startClusters, runs, now, input>>

\* generateInsight, lines 53-118: the collaborator replies, the update is accepted
InsightGenerated(p) ==
    /\ InsightCall(p)
    /\ \E parsed \in Replies :
          LET c == batch[p][gi[p]]
              data == InsightUpdate(c.row, parsed)
              updated == [clusters[c.id] EXCEPT !.title = data.title,
                                                !.aiInsight = data.aiInsight]
          IN /\ clusters' = [clusters EXCEPT ![c.id] = updated]
             /\ results' = [results EXCEPT ![p] = Append(results[p], updated)]
    /\ InsightCalled(p)
    /\ UNCHANGED <<failed, faults>>

\* generateInsight, lines 119-131: the collaborator throws (or its reply does not
\* parse), the fallback is written and the error thrown again; lines 41-43 log it
InsightFallback(p) ==
    /\ InsightCall(p)
    /\ LET c == batch[p][gi[p]]
       IN /\ clusters' = [clusters EXCEPT
                             ![c.id].aiInsight = generateFallbackInsight(c.row)]
          /\ failed' = [failed EXCEPT ![p] = Append(failed[p], c.id)]
    /\ InsightCalled(p)
    /\ UNCHANGED <<results, faults>>

\* generateInsight, lines 109-131: the collaborator replies, the store rejects the
\* update of lines 109-115 and accepts the one of lines 123-128
InsightUpdateRejected(p) ==
    /\ InsightCall(p)
    /\ faults < MaxFaults
    /\ faults' = faults + 1
    /\ LET c == batch[p][gi[p]]
       IN /\ clusters' = [clusters EXCEPT
                             ![c.id].aiInsight = generateFallbackInsight(c.row)]
          /\ failed' = [failed EXCEPT ![p] = Append(failed[p], c.id)]
    /\ InsightCalled(p)
    /\ UNCHANGED results

\* generateInsight, lines 119-131: the store rejects the update of lines 123-128
\* too, whatever made the call end up there; lines 41-43 log the rejection
InsightFallbackRejected(p) ==
    /\ InsightCall(p)
    /\ faults < MaxFaults
    /\ faults' = faults + 1
    /\ failed' = [failed EXCEPT ![p] = Append(failed[p], batch[p][gi[p]].id)]
    /\ InsightCalled(p)
    /\ UNCHANGED <<clusters, results>>

\* line 46
GenerateAllInsightsReturn(p) ==
    /\ pc[p] = "insights"
    /\ gi[p] > Len(batch[p])
    /\ pc' = [pc EXCEPT ![p] = "idle"]
    /\ UNCHANGED <<posts, clusters, batch, groups, gi, found, results, failed,
                   startClusters, runs, faults, now, input, output>>

\* one pass of the loop of generateAllInsights
InsightStep(p) ==
    \/ GenerateAllInsightsStart(p)
    \/ InsightGenerated(p)
    \/ InsightFallback(p)
    \/ InsightUpdateRejected(p)
    \/ InsightFallbackRejected(p)
    \/ GenerateAllInsightsReturn(p)

\* the runs of one scheduler, one after the other
NextInsight == InsightStep(1)

SpecInsight == InsightInit /\ [][NextInsight]_vars

\* generateAllInsights runs that may overlap: the scheduled pipeline and a manual
\* run
NextInsightOverlap == \E p \in Procs : InsightStep(p)

SpecInsightOverlap == InsightInit /\ [][NextInsightOverlap]_vars

(***************************************************************************)
(* The pure functions, each applied to an input drawn from a bounded set.  *)
(***************************************************************************)
PureInit(inputs) ==
    /\ EngineInit
    /\ now = 0
    /\ input \in inputs
    /\ output = <<>>

\* the raw records normalizePost scores: counters at and around the limits the
\* scores test, texts at and around the lengths they test
ScoreTags ==
    { <<<<>>, <<>>>>,
      <<<<"#boho", "#style">>, <<"dress">>>>,
      <<<<"#fashion", "#ootd", "#streetstyle", "#style">>, <<"dress", "silk">>>> }

ScoreInputs ==
    {[hashtags |-> t[1], keywords |-> t[2], textLen |-> len, mediaCount |-> media,
      likes |-> c[1], comments |-> c[2], shares |-> c[3], views |-> c[4], postedAt |-> 1] :
        t \in ScoreTags, len \in {0, 30, 31, 50, 51, 499, 500}, media \in {0, 1},
        c \in {0, 100, 101, 5000} \X {0, 10, 11} \X {0, 3} \X {0, 1, 999, 260000}}

ScoreRecord ==
    /\ output = <<>>
    /\ output' = <<NormalizedRow(input)>>
    /\ UNCHANGED <<engineVars, now, input>>

SpecScore == PureInit(ScoreInputs) /\ [][ScoreRecord]_vars

\* the counters calculateViralityScore reads: few likes, and view counters from
\* none to a hundred thousand
MaxLikes == 7

ViralityInputs ==
    [likes : 0..MaxLikes, comments : {0, 1}, shares : {0, 1},
     views : {0, 1, 500, 10000, 12500, 100000}]

ScoreVirality ==
    /\ output = <<>>
    /\ output' = <<calculateViralityScore(input)>>
    /\ UNCHANGED <<engineVars, now, input>>

SpecVirality == PureInit(ViralityInputs) /\ [][ScoreVirality]_vars

\* the groups calculateClusterTrendScore averages: MinClusterSize members or
\* more, each with a virality and a relevance score normalizePost can give
MaxGroup == 4

TrendMembers == [viralityScore : {0, 11}, relevanceScore : {60, 70, 75}]

TrendInputs == UNION {[1..n -> TrendMembers] : n \in MinClusterSize..MaxGroup}

ScoreTrend ==
    /\ output = <<>>
    /\ output' = <<calculateClusterTrendScore(input)>>
    /\ UNCHANGED <<engineVars, now, input>>

SpecTrend == PureInit(TrendInputs) /\ [][ScoreTrend]_vars

\* groups of scored records for the range of the trend score: `split` records
\* scored from the raw record `first`, the rest from `second`
MaxTrendGroup == 11

RangeRaws ==
    {[hashtags |-> t[1], keywords |-> t[2], textLen |-> m[1], mediaCount |-> m[2],
      likes |-> c[1], comments |-> c[2], shares |-> c[3], views |-> c[4], postedAt |-> 1] :
        t \in ScoreTags, m \in {<<0, 0>>, <<51, 1>>},
        c \in {<<0, 0, 0, 0>>, <<101, 11, 3, 1>>}}

RangeInputs ==
    {x \in [size : MinClusterSize..MaxTrendGroup, split : 1..MaxTrendGroup,
            first : RangeRaws, second : RangeRaws] : x.split <= x.size}

\* normalizePost on every record of the group
ScoreGroup ==
    /\ output = <<>>
    /\ output' = <<[i \in 1..input.size |->
                      NormalizedRow(IF i <= input.split THEN input.first ELSE input.second)]>>
    /\ UNCHANGED <<engineVars, now, input>>

\* createOrUpdateCluster's call of calculateClusterTrendScore on the group
TrendOfGroup ==
    /\ Len(output) = 1
    /\ output' = Append(output, calculateClusterTrendScore(output[1]))
    /\ UNCHANGED <<engineVars, now, input>>

NextRange == ScoreGroup \/ TrendOfGroup

SpecRange == PureInit(RangeInputs) /\ [][NextRange]_vars

\* two records whose hashtags are the same set in two orders, and their keywords
MaxKeyTags == 4
KeyTags == {"#boho", "#chic", "#denim", "#ootd"}
KeyWords == {"dress", "silk"}

Orders(S, maxLen) ==
    {s \in UNION {[1..n -> S] : n \in 0..maxLen} :
        \A i, j \in 1..Len(s) : s[i] = s[j] => i = j}

IsPermutation(s, t) == Len(s) = Len(t) /\ Range(s) = Range(t)

KeyInputs ==
    {x \in [h1 : Orders(KeyTags, MaxKeyTags), h2 : Orders(KeyTags, MaxKeyTags),
            k1 : Orders(KeyWords, 2), k2 : Orders(KeyWords, 2)] :
        IsPermutation(x.h1, x.h2) /\ IsPermutation(x.k1, x.k2)}

FingerprintBoth ==
    /\ output = <<>>
    /\ output' = <<[first |-> generateClusterKey(input.h1, input.k1),
                    second |-> generateClusterKey(input.h2, input.k2)]>>
    /\ UNCHANGED <<engineVars, now, input>>

SpecKey == PureInit(KeyInputs) /\ [][FingerprintBoth]_vars

\* groups of tag lists: long lists, a list that repeats a tag, an empty list
MaxLists == 4
CommonLists ==
    { <<"#boho", "#chic", "#denim", "#ootd", "#style", "#vintage", "dress">>,
      <<"#boho", "#boho", "#chic">>,
      <<"silk", "#vintage", "dress", "#style", "#ootd", "#denim">>,
      <<"#chic", "silk">>,
      <<>> }

CommonInputs == UNION {[1..n -> CommonLists] : n \in 1..MaxLists}

FindCommon ==
    /\ output = <<>>
    /\ output' = <<findCommonElements(input)>>
    /\ UNCHANGED <<engineVars, now, input>>

SpecCommon == PureInit(CommonInputs) /\ [][FindCommon]_vars

\* texts made of a few pieces: schemes, a letter, white space, the prefixes of
\* hashtags and mentions, a word that holds a keyword
MaxPieces == 4
TextPieces ==
    {HttpScheme, HttpsScheme, <<"a">>, <<" ">>, <<"\n">>, <<"#">>, <<"@">>,
     <<"S", "i", "l", "k">>}

TextInputs == {Flatten(ps) : ps \in UNION {[1..n -> TextPieces] : n \in 0..MaxPieces}}

\* lines 234-243 of normalizePost: the cleaned text and what is extracted from it
TextSignals(text) ==
    LET cleanedText == cleanText(text)
    IN [cleanedText |-> cleanedText,
        hashtags |-> extractHashtags(cleanedText),
        keywords |-> extractKeywords(cleanedText),
        mentions |-> extractMentions(cleanedText)]

NormalizeText ==
    /\ output = <<>>
    /\ output' = <<TextSignals(input)>>
    /\ UNCHANGED <<engineVars, now, input>>

\* the cleaned text is normalized again
RenormalizeText ==
    /\ Len(output) = 1
    /\ output' = Append(output, TextSignals(output[1].cleanedText))
    /\ UNCHANGED <<engineVars, now, input>>

NextText == NormalizeText \/ RenormalizeText

SpecText == PureInit(TextInputs) /\ [][NextText]_vars

(***************************************************************************)
(* normalization.service.ts: processAll over the scrapedPost table, which  *)
(* `input` holds.  batch[1] holds the ids findMany returned, gi[1] the     *)
(* position of the loop, results[1] the rows normalizePost returned,       *)
(* failed[1] the ids of the records whose error the loop logged.           *)
(***************************************************************************)
MaxScraped == 3
ProcessTake == 500

\* the text of a record that has none: null, which is not a string
NoText == <<"null">>

ScrapedTexts ==
    {NoText,
     <<"a">>,
     <<"#", "S", "i", "l", "k", " ", " ">> \o HttpScheme \o <<"a">>}

ScrapedKinds ==
    [text : ScrapedTexts, mediaCount : {0}, likes : {0, 200}, comments : {0}, shares : {0},
     views : {0}, postedAt : {1}, isProcessed : {FALSE}, processedAt : {<<>>}]

ScrapedTables == UNION {[1..n -> ScrapedKinds] : n \in 1..MaxScraped}

\* a String method is called on the text: a TypeError when there is none
CleanTextThrows(scrapedPost) == scrapedPost.text = NoText

\* lines 234-243 of normalizePost: what the scores and the row are built from
SignalsOf(scrapedPost) ==
    LET signals == TextSignals(scrapedPost.text)
        strings(tags) == [i \in 1..Len(tags) |-> Join(tags[i], "")]
    IN [hashtags |-> strings(signals.hashtags), keywords |-> strings(signals.keywords),
        textLen |-> Len(signals.cleanedText), mediaCount |-> scrapedPost.mediaCount,
        likes |-> scrapedPost.likes, comments |-> scrapedPost.comments,
        shares |-> scrapedPost.shares, views |-> scrapedPost.views,
        postedAt |-> scrapedPost.postedAt]

\* the row normalizedPost.create inserts for the record of the given id
ScrapedRow(id) == [scrapedPostId |-> id] @@ NormalizedRow(SignalsOf(input[id]))

\* scrapedPost.findMany({where: {isProcessed: false}, take: 500})
Unprocessed ==
    LET ids == {i \in 1..Len(input) : ~input[i].isProcessed}
    IN Slice(SelectAt([k \in 1..Len(input) |-> k], ids), ProcessTake)

ProcessInit ==
    /\ EngineInit
    /\ now = 0
    /\ input \in ScrapedTables
    /\ output = <<>>

\* lines 199-206
ProcessAllStart(p) ==
    /\ pc[p] \in {"idle", "threw"}
    /\ runs < MaxRuns
    /\ batch' = [batch EXCEPT ![p] = Unprocessed]
    /\ gi' = [gi EXCEPT ![p] = 1]
    /\ results' = [results EXCEPT ![p] = <<>>]
    /\ failed' = [failed EXCEPT ![p] = <<>>]
    /\ pc' = [pc EXCEPT ![p] = "process"]
    /\ runs' = runs + 1
    /\ UNCHANGED <<posts, clusters, groups, found, startClusters, faults, now, input, output>>

\* findMany rejects: nothing in processAll catches it
ProcessAllReadFails(p) ==
    /\ pc[p] \in {"idle", "threw"}
    /\ runs < MaxRuns
    /\ faults < MaxFaults
    /\ batch' = [batch EXCEPT ![p] = <<>>]
    /\ gi' = [gi EXCEPT ![p] = 0]
    /\ results' = [results EXCEPT ![p] = <<>>]
    /\ failed' = [failed EXCEPT ![p] = <<>>]
    /\ pc' = [pc EXCEPT ![p] = "threw"]
    /\ runs' = runs + 1
    /\ faults' = faults + 1
    /\ UNCHANGED <<posts, clusters, groups, found, startClusters, now, input, output>>

ProcessNext(p) == pc[p] = "process" /\ gi[p] <= Len(batch[p])

\* lines 209-219: the record is normalized and marked as processed
NormalizeAndMark(p) ==
    /\ ProcessNext(p)
    /\ ~CleanTextThrows(input[batch[p][gi[p]]])
    /\ LET id == batch[p][gi[p]]
       IN /\ posts' = Append(posts, ScrapedRow(id))
          /\ results' = [results EXCEPT ![p] = Append(results[p], ScrapedRow(id))]
          /\ input' = [input EXCEPT ![id].isProcessed = TRUE, ![id].processedAt = <<now>>]
    /\ gi' = [gi EXCEPT ![p] = gi[p] + 1]
    /\ UNCHANGED <<clusters, pc, batch, groups, found, failed, startClusters, runs, faults,
                   now, output>>

\* the catch of lines 220-222 with the loop going on
Skipped(p) ==
    /\ failed' = [failed EXCEPT ![p] = Append(failed[p], batch[p][gi[p]])]
    /\ gi' = [gi EXCEPT ![p] = gi[p] + 1]
    /\ UNCHANGED <<posts, clusters, pc, batch, groups, found, results, startClusters, runs,
                   now, input, output>>

\* processAll without the try/catch of its loop: the error leaves processAll
NormalizeThrowsUncaught(p) ==
    /\ ProcessNext(p)
    /\ CleanTextThrows(input[batch[p][gi[p]]])
    /\ pc' = [pc EXCEPT ![p] = "threw"]
    /\ failed' = [failed EXCEPT ![p] = Append(failed[p], batch[p][gi[p]])]
    /\ UNCHANGED <<posts, clusters, batch, groups, gi, found, results, startClusters, runs,
                   faults, now, input, output>>

\* lines 209-211 and 220-222: normalizePost throws on the record, at cleanText
NormalizeThrows(p) ==
    /\ ProcessNext(p)
    /\ CleanTextThrows(input[batch[p][gi[p]]])
    /\ Skipped(p)
    /\ UNCHANGED faults

\* lines 209-211 and 220-222: normalizePost throws because the store rejects the
\* create
NormalizeCreateRejected(p) ==
    /\ ProcessNext(p)
    /\ ~CleanTextThrows(input[batch[p][gi[p]]])
    /\ faults < MaxFaults
    /\ faults' = faults + 1
    /\ Skipped(p)

\* lines 225-226
ProcessAllReturn(p) ==
    /\ pc[p] = "process"
    /\ gi[p] > Len(batch[p])
    /\ pc' = [pc EXCEPT ![p] = "idle"]
    /\ UNCHANGED <<posts, clusters, batch, groups, gi, found, results, failed,
                   startClusters, runs, faults, now, input, output>>

\* lines 209-222: the record is normalized and its row created, then the store
\* rejects the update that marks it as processed; the catch logs it
MarkRejected(p) ==
    /\ ProcessNext(p)
    /\ ~CleanTextThrows(input[batch[p][gi[p]]])
    /\ faults < MaxFaults
    /\ faults' = faults + 1
    /\ LET id == batch[p][gi[p]]
       IN /\ posts' = Append(posts, ScrapedRow(id))
          /\ results' = [results EXCEPT ![p] = Append(results[p], ScrapedRow(id))]
          /\ failed' = [failed EXCEPT ![p] = Append(failed[p], id)]
    /\ gi' = [gi EXCEPT ![p] = gi[p] + 1]
    /\ UNCHANGED <<clusters, pc, batch, groups, found, startClusters, runs, now, input,
                   output>>

\* one step of a processAll run, the store accepting the update of line 213
ProcessStep(p) ==
    \/ ProcessAllStart(p)
    \/ ProcessAllReadFails(p)
    \/ NormalizeAndMark(p)
    \/ NormalizeThrows(p)
    \/ NormalizeCreateRejected(p)
    \/ ProcessAllReturn(p)

\* the runs of one scheduler, one after the other
NextProcess == ProcessStep(1)

SpecProcess == ProcessInit /\ [][NextProcess]_vars

\* processAll runs that may overlap (the scheduled pipeline and a manual run),
\* over a store that may reject any write
NextProcessOverlap == \E p \in Procs : ProcessStep(p) \/ MarkRejected(p)

SpecProcessOverlap == ProcessInit /\ [][NextProcessOverlap]_vars

\* member lists of a cluster: r posts of the last 24 hours, p of the 24 hours
\* before, o older ones, as calculateGrowthRates fetches them (newest first)
MaxRecent == 10
MaxPrevious == 20
MaxOlder == 1

GrowthInputs == [recent : 0..MaxRecent, previous : 0..MaxPrevious, older : 0..MaxOlder]

GrowthMembers(x, nowMs) ==
    [i \in 1..x.recent |-> [postedAt |-> nowMs - (i - 1)]]
    \o [i \in 1..x.previous |->
            [postedAt |-> IF i = 1 THEN nowMs - DayMs ELSE nowMs - 2 * DayMs + 1]]
    \o [i \in 1..x.older |-> [postedAt |-> nowMs - 2 * DayMs]]

\* Date.now() answers some time
Tick ==
    /\ now = 0
    /\ now' \in {2 * DayMs, 3 * DayMs + 1}
    /\ UNCHANGED <<engineVars, input, output>>

GrowthOfMembers ==
    /\ now # 0
    /\ output = <<>>
    /\ output' = <<calculateGrowth(GrowthMembers(input, now), now)>>
    /\ UNCHANGED <<engineVars, now, input>>

NextGrowth == Tick \/ GrowthOfMembers

SpecGrowth == PureInit(GrowthInputs) /\ [][NextGrowth]_vars

\* member lists up to and beyond the 100 posts calculateGrowthRates includes
TakenInputs ==
    [recent : {0, 1, 2, 50, 98, 99, 100, 120}, previous : {0, 1, 2, 3, 50, 99, 100, 101},
     older : {0, 1}]

\* an include that reads every member
TakenMembersAll(x, nowMs) == GrowthMembers(x, nowMs)

\* include: { posts: { orderBy: { postedAt: 'desc' }, take: 100 } }
TakenMembers(x, nowMs) == Slice(GrowthMembers(x, nowMs), GrowthTake)

GrowthOfTaken ==
    /\ now # 0
    /\ output = <<>>
    /\ output' = <<calculateGrowth(TakenMembers(input, now), now)>>
    /\ UNCHANGED <<engineVars, now, input>>

NextTaken == Tick \/ GrowthOfTaken

SpecTaken == PureInit(TakenInputs) /\ [][NextTaken]_vars

(***************************************************************************)
(* calculateGrowthRates over a store of active and inactive clusters.      *)
(* batch[p] holds the rows findMany returned, each with the posts included *)
(* with it, gi[p] the position of the loop, failed[p] the ids of the       *)
(* clusters whose error the loop logged.                                   *)
(***************************************************************************)
MaxMembers == 3
MaxRated == 3

RatesTags == <<"#boho", "#chic", "#denim", "#fashion">>

RatesRow(c, active) ==
    [CreatedCluster(generateClusterKey(Slice(RatesTags, c), <<>>),
                    [commonHashtags |-> Slice(RatesTags, c), commonKeywords |-> <<>>,
                     trendScore |-> 50, firstSeenAt |-> DayMs, lastSeenAt |-> 3 * DayMs])
       EXCEPT !.isActive = active]

RatesTables == {[c \in 1..MaxRated |-> RatesRow(c, a[c])] : a \in [1..MaxRated -> BOOLEAN]}

\* records of the last 24 hours and of the 24 hours before, of every cluster; the
\* growth counts them whatever their ids, so they are listed cluster by cluster
RatesPosts ==
    {ps \in UNION {[1..n -> {[EngineRows[1] EXCEPT !.clusterId = c, !.postedAt = t] :
                                c \in 1..MaxRated, t \in {3 * DayMs, 2 * DayMs}}] :
                      n \in 0..MaxMembers} :
        \A i \in 1..(Len(ps) - 1) : ps[i].clusterId <= ps[i + 1].clusterId}

RatesInit ==
    /\ posts \in RatesPosts
    /\ clusters \in RatesTables
    /\ pc = [p \in Procs |-> "idle"]
    /\ batch = [p \in Procs |-> <<>>]
    /\ groups = [p \in Procs |-> <<>>]
    /\ gi = [p \in Procs |-> 0]
    /\ found = [p \in Procs |-> 0]
    /\ results = [p \in Procs |-> <<>>]
    /\ failed = [p \in Procs |-> <<>>]
    /\ startClusters = [p \in Procs |-> <<>>]
    /\ runs = 0
    /\ faults = 0
    /\ now = 3 * DayMs
    /\ input = None
    /\ output = <<>>

\* include: { posts: { orderBy: { postedAt: 'desc' }, take: 100 } }
IncludedPosts(c) ==
    LET ids == SelectAt([i \in 1..Len(posts) |-> i],
                        {i \in 1..Len(posts) : posts[i].clusterId = c})
        sorted == StableSortBy(ids, [j \in 1..Len(ids) |-> 0 - posts[ids[j]].postedAt])
    IN Slice([j \in 1..Len(sorted) |-> posts[sorted[j]]], GrowthTake)

\* findMany({ where: { isActive: true }, include: ... })
ActiveClusters ==
    LET ids == SelectAt([c \in 1..Len(clusters) |-> c],
                        {c \in 1..Len(clusters) : clusters[c].isActive})
    IN [j \in 1..Len(ids) |-> [id |-> ids[j], posts |-> IncludedPosts(ids[j])]]

\* lines 217-227
CalculateGrowthRatesStart(p) ==
    /\ pc[p] = "idle"
    /\ runs < MaxRuns
    /\ batch' = [batch EXCEPT ![p] = ActiveClusters]
    /\ gi' = [gi EXCEPT ![p] = 1]
    /\ failed' = [failed EXCEPT ![p] = <<>>]
    /\ pc' = [pc EXCEPT ![p] = "growth"]
    /\ runs' = runs + 1
    /\ UNCHANGED <<posts, clusters, groups, found, results, startClusters, faults, now,
                   input, output>>

\* lines 217-227: the store rejects the findMany, nothing catches it
CalculateGrowthRatesReadFails(p) ==
    /\ pc[p] = "idle"
    /\ runs < MaxRuns
    /\ faults < MaxFaults
    /\ faults' = faults + 1
    /\ runs' = runs + 1
    /\ batch' = [batch EXCEPT ![p] = <<>>]
    /\ failed' = [failed EXCEPT ![p] = <<>>]
    /\ UNCHANGED <<posts, clusters, pc, groups, gi, found, results, startClusters, now,
                   input, output>>

\* lines 229-236: the growth of one cluster is computed and stored
GrowthUpdated(p) ==
    /\ pc[p] = "growth"
    /\ gi[p] <= Len(batch[p])
    /\ LET c == batch[p][gi[p]]
       IN clusters' = [clusters EXCEPT
                          ![c.id].growthPercentage = calculateGrowth(c.posts, now)]
    /\ gi' = [gi EXCEPT ![p] = gi[p] + 1]
    /\ UNCHANGED <<posts, pc, batch, groups, found, results, failed, startClusters, runs,
                   faults, now, input, output>>

\* an update whose rejection ends the run
GrowthUpdateRejectedUncaught(p) ==
    /\ pc[p] = "growth"
    /\ gi[p] <= Len(batch[p])
    /\ faults < MaxFaults
    /\ faults' = faults + 1
    /\ failed' = [failed EXCEPT ![p] = Append(failed[p], batch[p][gi[p]].id)]
    /\ pc' = [pc EXCEPT ![p] = "idle"]
    /\ UNCHANGED <<posts, clusters, batch, groups, gi, found, results, startClusters, runs,
                   now, input, output>>

\* lines 233-239: the store rejects the update, the catch logs it and the loop
\* goes on
GrowthUpdateRejected(p) ==
    /\ pc[p] = "growth"
    /\ gi[p] <= Len(batch[p])
    /\ faults < MaxFaults
    /\ faults' = faults + 1
    /\ failed' = [failed EXCEPT ![p] = Append(failed[p], batch[p][gi[p]].id)]
    /\ gi' = [gi EXCEPT ![p] = gi[p] + 1]
    /\ UNCHANGED <<posts, clusters, pc, batch, groups, found, results, startClusters, runs,
                   now, input, output>>

\* line 241: the loop is over
CalculateGrowthRatesReturn(p) ==
    /\ pc[p] = "growth"
    /\ gi[p] > Len(batch[p])
    /\ pc' = [pc EXCEPT ![p] = "idle"]
    /\ UNCHANGED <<posts, clusters, batch, groups, gi, found, results, failed,
                   startClusters, runs, faults, now, input, output>>

NextRates ==
    \/ CalculateGrowthRatesStart(1)
    \/ CalculateGrowthRatesReadFails(1)
    \/ GrowthUpdated(1)
    \/ GrowthUpdateRejected(1)
    \/ CalculateGrowthRatesReturn(1)

SpecRates == RatesInit /\ [][NextRates]_vars

(***************************************************************************)
(* scraping.service.ts: start() and stop() on the one ScrapingService.     *)
(* `input` holds the instance and the timers of the event loop: isRunning, *)
(* scrapingInterval (0 for null, or the handle setInterval returned),      *)
(* timers (the handles of the intervals that are scheduled) and created    *)
(* (the number of handles handed out).  pc[p] is where the call p stands,  *)
(* output the calls issued, in order.  runScrapeAsync starts a scrape and  *)
(* returns; it touches neither field.                                      *)
(***************************************************************************)
MaxCalls == 4

isRunning == input.isRunning
scrapingInterval == input.scrapingInterval
Timers == input.timers

ServiceInit ==
    /\ EngineInit
    /\ now = 0
    /\ input = [isRunning |-> FALSE, scrapingInterval |-> 0, timers |-> {}, created |-> 0]
    /\ output = <<>>

\* the frame of every step of a call
ServiceFrame == UNCHANGED <<posts, clusters, batch, groups, gi, found, results, failed,
                            startClusters, now>>

\* start(), lines 176-191: up to the await of initialize()
StartCall(p) ==
    /\ pc[p] = "idle"
    /\ runs < MaxCalls
    /\ runs' = runs + 1
    /\ output' = Append(output, "start")
    /\ IF isRunning
       THEN UNCHANGED <<pc, input>>
       ELSE /\ input' = [input EXCEPT !.isRunning = TRUE]
            /\ pc' = [pc EXCEPT ![p] = "initialize"]
    /\ UNCHANGED faults
    /\ ServiceFrame

\* start(), lines 193-201: initialize() resolved, the interval is scheduled
StartInitialized(p) ==
    /\ pc[p] = "initialize"
    /\ input' = [input EXCEPT !.scrapingInterval = input.created + 1,
                              !.timers = Timers \cup {input.created + 1},
                              !.created = input.created + 1]
    /\ pc' = [pc EXCEPT ![p] = "idle"]
    /\ UNCHANGED <<runs, faults, output>>
    /\ ServiceFrame

\* start(), lines 203-207: initialize() rejected
StartInitializeFails(p) ==
    /\ pc[p] = "initialize"
    /\ faults < MaxFaults
    /\ faults' = faults + 1
    /\ input' = [input EXCEPT !.isRunning = FALSE]
    /\ pc' = [pc EXCEPT ![p] = "idle"]
    /\ UNCHANGED <<runs, output>>
    /\ ServiceFrame

\* stop(), lines 214-229: up to the await of cleanup()
StopCall(p) ==
    /\ pc[p] = "idle"
    /\ runs < MaxCalls
    /\ runs' = runs + 1
    /\ output' = Append(output, "stop")
    /\ IF ~isRunning
       THEN UNCHANGED <<pc, input>>
       ELSE /\ input' = IF scrapingInterval # 0
                        THEN [input EXCEPT !.timers = Timers \ {scrapingInterval},
                                           !.scrapingInterval = 0]
                        ELSE input
            /\ pc' = [pc EXCEPT ![p] = "cleanup"]
    /\ UNCHANGED faults
    /\ ServiceFrame

\* stop(), lines 231-232: cleanup() resolved
StopCleaned(p) ==
    /\ pc[p] = "cleanup"
    /\ input' = [input EXCEPT !.isRunning = FALSE]
    /\ pc' = [pc EXCEPT ![p] = "idle"]
    /\ UNCHANGED <<runs, faults, output>>
    /\ ServiceFrame

\* stop(), lines 234-237: cleanup() rejected
StopCleanupFails(p) ==
    /\ pc[p] = "cleanup"
    /\ faults < MaxFaults
    /\ faults' = faults + 1
    /\ pc' = [pc EXCEPT ![p] = "idle"]
    /\ UNCHANGED <<runs, input, output>>
    /\ ServiceFrame

NextService ==
    \E p \in Procs :
        \/ StartCall(p)
        \/ StartInitialized(p)
        \/ StartInitializeFails(p)
        \/ StopCall(p)
        \/ StopCleaned(p)
        \/ StopCleanupFails(p)

SpecService == ServiceInit /\ [][NextService]_vars

(***************************************************************************)
(* Properties of the clustering engine.                                    *)
(***************************************************************************)
RowsOfKey(rows, key) == {c \in 1..Len(rows) : rows[c].clusterKey = key}

Members(c) == {i \in 1..Len(posts) : posts[i].clusterId = c}

C2_SmallGroupsUntouched ==
    /\ \A j \in 1..Len(groups[1]) :
           LET g == groups[1][j]
           IN Len(g.posts) < MinClusterSize =>
                  /\ \A i \in Range(g.posts) : posts[i].clusterId = 0
                  /\ RowsOfKey(clusters, g.clusterKey)
                         = RowsOfKey(startClusters[1], g.clusterKey)
                  /\ \A c \in RowsOfKey(clusters, g.clusterKey) :
                         clusters[c] = startClusters[1][c]
    /\ (Len(batch[1]) = 2 /\ Len(groups[1]) = 1) => clusters = startClusters[1]

\* a run has returned from a batch of 2 posts whose fingerprint has a cluster
C2_PairOfStoredKey ==
    /\ pc[1] = "done"
    /\ Len(batch[1]) = 2
    /\ Len(groups[1]) = 1
    /\ RowsOfKey(clusters, groups[1][1].clusterKey) # {}

C4_LastSeenNeverDecreases ==
    [][\A c \in 1..Len(clusters) : clusters'[c].lastSeenAt >= clusters[c].lastSeenAt]_vars

\* C5: between runs, every tag of a cluster's commonHashtags (commonKeywords) is
\* in the hashtags (keywords) of at least ceil(0.3 * m) of the m posts assigned
\* to the cluster, those of earlier runs included.
C5_CommonAmongAllMembers ==
    (faults = 0 /\ Returned(1)) =>
        \A c \in 1..Len(clusters) :
            /\ \A t \in Range(clusters[c].commonHashtags) :
                   10 * Cardinality({i \in Members(c) : t \in Range(posts[i].hashtags)})
                       >= 3 * Cardinality(Members(c))
            /\ \A t \in Range(clusters[c].commonKeywords) :
                   10 * Cardinality({i \in Members(c) : t \in Range(posts[i].keywords)})
                       >= 3 * Cardinality(Members(c))

\* C6: the virality, relevance and quality scores normalizePost stores are
\* integers of 0..100, whatever the counters, the text and the media.
C6_ScoresInRange ==
    output # <<>> =>
        /\ output[1].viralityScore \in 0..100
        /\ output[1].relevanceScore \in 0..100
        /\ output[1].qualityScore \in 0..100

\* a record whose unclamped virality, relevance and quality all reach 100 or more
C6_AllAtTheTop ==
    /\ output # <<>>
    /\ input.views = 1
    /\ Len(input.hashtags) = 4
    /\ input.textLen = 51
    /\ output[1].viralityScore = 100
    /\ output[1].relevanceScore = 100
    /\ output[1].qualityScore = 100

\* C7: two records whose hashtags are permutations of one set and whose keywords
\* are permutations of one set, of any size, get the same fingerprint.
C7_OrderIndependent == output # <<>> => output[1].first = output[1].second

\* the number of lists of `arrays` that hold tag t
Frequency(arrays, t) == Cardinality({a \in 1..Len(arrays) : t \in Range(arrays[a])})

\* C8: findCommonElements of n >= 1 lists returns at most 5 tags, each in at
\* least ceil(0.3 * n) of the lists, by non-increasing frequency, and omits no
\* tag of a frequency above that of a returned tag.
C8_CommonElements ==
    output # <<>> =>
        LET common == output[1]
        IN /\ Len(common) <= 5
           /\ \A i \in 1..Len(common) :
                  10 * Frequency(input, common[i]) >= 3 * Len(input)
           /\ \A i, j \in 1..Len(common) :
                  i < j => Frequency(input, common[i]) >= Frequency(input, common[j])
           /\ \A t \in Range(Flatten(input)) \ Range(common) :
                  \A i \in 1..Len(common) :
                      Frequency(input, t) <= Frequency(input, common[i])

\* five tags are returned, a sixth that passes the threshold is cut, a tag below
\* the threshold is dropped and a list repeats a tag
C8_CutAndDropped ==
    /\ output # <<>>
    /\ Len(output[1]) = 5
    /\ \E t \in Range(Flatten(input)) \ Range(output[1]) :
           10 * Frequency(input, t) >= 3 * Len(input)
    /\ \E t \in Range(Flatten(input)) : 10 * Frequency(input, t) < 3 * Len(input)
    /\ \E a \in 1..Len(input) : Len(Unique(input[a])) < Len(input[a])

\* C9: calculateGrowth is 0 under 2 members; with no member of the previous 24
\* hours it is 100 when a member is recent and 0 when none is; otherwise it is
\* floor((recent - previous) * 100 / previous).
C9_GrowthFormula ==
    output # <<>> =>
        output[1] = IF input.recent + input.previous + input.older < 2 THEN 0
                    ELSE IF input.previous = 0
                         THEN (IF input.recent > 0 THEN 100 ELSE 0)
                    ELSE ((input.recent - input.previous) * 100) \div input.previous

\* C11: from an empty cluster store, a batch of 4 records tagged #fashionweek and
\* #runway with 1000 likes and no comments, shares or views gets virality 100
\* through the fallback of views, forms one group and one new cluster whose
\* commonHashtags holds both tags and whose trendScore is above 50, and the 4
\* records are assigned to it.
C11_FashionWeekBatch ==
    (pc[1] = "done" /\ Len(batch[1]) = 4 /\ startClusters[1] = <<>> /\ failed[1] = <<>>) =>
        /\ \A i \in Range(batch[1]) : posts[i].viralityScore = 100
        /\ Len(groups[1]) = 1
        /\ Len(clusters) = 1
        /\ {"#fashionweek", "#runway"} \subseteq Range(clusters[1].commonHashtags)
        /\ clusters[1].trendScore > 50
        /\ \A i \in Range(batch[1]) : posts[i].clusterId = 1

\* the run of such a batch has returned
C11_BatchClustered ==
    /\ pc[1] = "done"
    /\ Len(batch[1]) = 4
    /\ startClusters[1] = <<>>
    /\ failed[1] = <<>>
    /\ results[1] = <<1>>

\* C12: the output of cleanText holds neither "http://" nor "https://", no two
\* white-space characters in a row and no white space at either end, also when
\* white space or the end of the text follows the scheme.
C12_CleanTextIsClean ==
    output # <<>> =>
        LET cleaned == output[1].cleanedText
        IN /\ \A i \in 1..Len(cleaned) : SchemeAt(cleaned, i) = 0
           /\ \A i \in 1..(Len(cleaned) - 1) :
                  ~(cleaned[i] \in WhiteSpace /\ cleaned[i + 1] \in WhiteSpace)
           /\ cleaned # <<>> =>
                  cleaned[1] \notin WhiteSpace /\ cleaned[Len(cleaned)] \notin WhiteSpace

\* C13: cleanText of a cleaned text is that text, and the hashtags, keywords and
\* mentions extracted from it are the same sets.
C13_NormalizationIdempotent ==
    Len(output) = 2 =>
        /\ output[2].cleanedText = output[1].cleanedText
        /\ Range(output[2].hashtags) = Range(output[1].hashtags)
        /\ Range(output[2].keywords) = Range(output[1].keywords)
        /\ Range(output[2].mentions) = Range(output[1].mentions)

\* a text that lost a URL, with a hashtag and a keyword left in it, was
\* normalized again
C13_Renormalized ==
    /\ Len(output) = 2
    /\ \E i \in 1..Len(input) : UrlAt(input, i)
    /\ output[1].cleanedText # input
    /\ output[1].hashtags # <<>>
    /\ output[1].keywords # <<>>

\* the clusters generateInsight was called for
Attempted == {output[i] : i \in 1..Len(output)}

GeneratedInsights == {r.insight : r \in Replies} \ {""}

\* C14 (as stated): after insight generation was attempted for a cluster, its
\* insight is the generated insight or the deterministic fallback string.
C14_GeneratedOrFallback ==
    \A c \in Attempted :
        clusters[c].aiInsight \in GeneratedInsights \cup {generateFallbackInsight(clusters[c])}

\* C14 (amended): after insight generation was attempted for a cluster, its insight
\* is never blank: it is the generated insight, the fixed text written for a reply
\* without an insight, or the deterministic fallback string; it is still the
\* pending sentinel only when the store rejected a write.
C14_InsightNeverBlank ==
    \A c \in Attempted :
        /\ clusters[c].aiInsight # ""
        /\ clusters[c].aiInsight \in
               GeneratedInsights
               \cup {UnableInsight, generateFallbackInsight(clusters[c]), PendingInsight}
        /\ clusters[c].aiInsight = PendingInsight => faults > 0

\* the collaborator failed for one cluster, which holds the fallback string, and
\* replied without an insight for another
C14_FailedAndEmptyReply ==
    /\ \E c \in Range(failed[1]) :
          /\ clusters[c].aiInsight = generateFallbackInsight(clusters[c])
          /\ clusters[c].growthPercentage <= 0
    /\ \E d \in Attempted : clusters[d].aiInsight = UnableInsight

\* C15: when the generation collaborator fails for a cluster, the pending sentinel
\* stays on that cluster, so the next generateAllInsights run selects it again.
C15_SentinelLeftInPlace ==
    [][failed'[1] # failed[1] =>
          clusters'[failed'[1][Len(failed'[1])]].aiInsight = PendingInsight]_vars

\* the records the loop of the current processAll run is through with
Handled == {batch[1][j] : j \in 1..Min(gi[1] - 1, Len(batch[1]))}

RowsOfScraped(id) == {i \in 1..Len(posts) : posts[i].scrapedPostId = id}

C17_ViralityFormula ==
    output # <<>> =>
        LET engagement == input.likes + 2 * input.comments + 3 * input.shares
            v == IF input.views > 0 THEN input.views ELSE engagement * 10
        IN output[1] = IF v > 0 THEN Min(100, (engagement * 100000) \div v) ELSE 0

\* C18: the trend score of a group of n >= 3 records is
\* floor((4 * sum(virality) + 4 * sum(relevance)) / (10 * n) + 0.2 * min(20, 2 * n)),
\* clamped to 0..100, computed from the records of the group only.
C18_TrendScoreFormula ==
    output # <<>> =>
        LET n == Len(input)
            sumV == SumSeq([i \in 1..n |-> input[i].viralityScore])
            sumR == SumSeq([i \in 1..n |-> input[i].relevanceScore])
        IN output[1] = Min(100, Max(0, (4 * sumV + 4 * sumR + 2 * n * Min(20, 2 * n))
                                          \div (10 * n)))

\* C19: a cluster created for an unseen fingerprint starts with growthPercentage 0,
\* the pending sentinel as insight and isActive true, firstSeenAt the minimum and
\* lastSeenAt the maximum postedAt of the group's members; when the call that
\* created it returns, every member of the group is assigned to it.
C19_CreatedClusterStart ==
    [][/\ Len(clusters') > Len(clusters) =>
             LET row == clusters'[Len(clusters')]
                 times == {posts[i].postedAt : i \in Range(CurGroup(1).posts)}
             IN /\ Len(clusters') = Len(clusters) + 1
                /\ row.clusterKey = CurGroup(1).clusterKey
                /\ row.growthPercentage = 0
                /\ row.aiInsight = PendingInsight
                /\ row.isActive
                /\ row.firstSeenAt \in times /\ \A t \in times : row.firstSeenAt <= t
                /\ row.lastSeenAt \in times /\ \A t \in times : row.lastSeenAt >= t
       /\ (pc[1] = "assign" /\ found[1] > Len(startClusters[1])
             /\ results'[1] # results[1]) =>
             /\ clusters[found[1]].clusterKey = CurGroup(1).clusterKey
             /\ \A i \in Range(CurGroup(1).posts) : posts'[i].clusterId = found[1]]_vars

\* a created cluster whose members, posted at different times, are assigned
C19_CreatedAndAssigned ==
    \E c \in 1..Len(clusters) :
        /\ c > Len(startClusters[1])
        /\ c \in Range(results[1])
        /\ clusters[c].firstSeenAt < clusters[c].lastSeenAt
        /\ Cardinality(Members(c)) >= MinClusterSize

\* C20: the update branch of createOrUpdateCluster changes commonHashtags,
\* commonKeywords, trendScore, lastSeenAt and isActive (to true) of the row
\* found, and nothing else: its title, insight, growthPercentage, firstSeenAt
\* and clusterKey stay, and so does every other row.
C20_UpdateFrame ==
    [][(pc[1] = "write" /\ found[1] # 0 /\ pc'[1] = "assign") =>
          LET old == clusters[found[1]]
              new == clusters'[found[1]]
              m == GroupMetrics(GroupRows(CurGroup(1)))
          IN /\ Len(clusters') = Len(clusters)
             /\ \A c \in 1..Len(clusters) : c # found[1] => clusters'[c] = clusters[c]
             /\ new.title = old.title
             /\ new.aiInsight = old.aiInsight
             /\ new.growthPercentage = old.growthPercentage
             /\ new.firstSeenAt = old.firstSeenAt
             /\ new.clusterKey = old.clusterKey
             /\ new.commonHashtags = m.commonHashtags
             /\ new.commonKeywords = m.commonKeywords
             /\ new.trendScore = m.trendScore
             /\ new.lastSeenAt = m.lastSeenAt
             /\ new.isActive
             /\ posts' = posts]_vars

\* the update branch was taken for a group that starts earlier than the stored
\* cluster and has other common hashtags, with another cluster in the store
C20_UpdatedOneOfTwo ==
    /\ pc[1] = "assign"
    /\ found[1] # 0
    /\ found[1] <= Len(startClusters[1])
    /\ Len(clusters) >= 2
    /\ clusters[found[1]].lastSeenAt # startClusters[1][found[1]].lastSeenAt
    /\ clusters[found[1]].commonHashtags # startClusters[1][found[1]].commonHashtags
    /\ clusters[found[1]].firstSeenAt
           > GroupMetrics(GroupRows(CurGroup(1))).firstSeenAt

\* the first run has returned: two clusters, their members assigned
SettledReached ==
    /\ posts = SettledPosts
    /\ clusters = SettledClusters
    /\ pc[1] = "done"
    /\ batch[1] = [i \in 1..(2 * MinClusterSize) |-> i]
    /\ groups[1] = SettledGroups
    /\ gi[1] = 0
    /\ found[1] = 0
    /\ results[1] = <<1, 2>>
    /\ failed[1] = <<>>
    /\ runs = 1
    /\ faults = 0

\* a clusterAll run has returned and none of its upserts failed
CleanRunDone == pc[1] = "done" /\ failed[1] = <<>>

\* record i is a member of a group whose upsert failed in the current run
InFailedGroup(i) ==
    IF i \in Range(batch[1]) THEN KeyOf(i) \in Range(failed[1]) ELSE FALSE

\* record i is assigned to the one cluster of its fingerprint
AssignedToItsCluster(i) ==
    IF i <= Len(posts)
    THEN /\ Cardinality(RowsOfKey(clusters, KeyOf(i))) = 1
         /\ posts[i].clusterId \in RowsOfKey(clusters, KeyOf(i))
    ELSE FALSE

InSmallGroup(i) ==
    \E g \in 1..Len(groups[1]) :
        i \in Range(groups[1][g].posts) /\ Len(groups[1][g].posts) < MinClusterSize

\* the current run read record i in a group of MinClusterSize records or more
InLargeGroup(i) ==
    \E g \in 1..Len(groups[1]) :
        i \in Range(groups[1][g].posts) /\ Len(groups[1][g].posts) >= MinClusterSize

\* record i is assigned to the one cluster of the fingerprint of its group
AssignedToGroupCluster(i) ==
    \A g \in 1..Len(groups[1]) :
        i \in Range(groups[1][g].posts) =>
            /\ Cardinality(RowsOfKey(clusters, groups[1][g].clusterKey)) = 1
            /\ posts[i].clusterId \in RowsOfKey(clusters, groups[1][g].clusterKey)

\* C22: a record read in a group of fewer than 3 stays unassigned, and once a
\* later clusterAll run has read it among 3 or more unassigned records of its
\* fingerprint and returned with no failure, it is assigned to the cluster of
\* that fingerprint.
C22_SmallGroupGrows ==
    \A i \in 1..RetryPosts :
        [](InSmallGroup(i) =>
              /\ posts[i].clusterId = 0
              /\ []((CleanRunDone /\ InLargeGroup(i)) => AssignedToGroupCluster(i)))

\* the second run has returned without a failure, no cluster was stored when it
\* started, and it assigned a group of 4 records posted at two different times
C22_GrownAndAssigned ==
    /\ CleanRunDone
    /\ runs = 2
    /\ faults = 0
    /\ startClusters[1] = <<>>
    /\ \E c \in 1..Len(clusters) :
          /\ Cardinality(Members(c)) > MinClusterSize
          /\ Members(c) \subseteq Range(batch[1])
          /\ clusters[c].firstSeenAt < clusters[c].lastSeenAt

\* C23: generateAllInsights asks for an insight only for clusters that hold the
\* pending sentinel at that moment, and a cluster that holds another insight keeps
\* its title and its insight in every step of every run.
C23_RealInsightKept ==
    [][/\ \A c \in 1..Len(clusters) :
             clusters[c].aiInsight # PendingInsight =>
                 /\ clusters'[c].title = clusters[c].title
                 /\ clusters'[c].aiInsight = clusters[c].aiInsight
       /\ output' # output => clusters[output'[Len(output')]].aiInsight = PendingInsight]_vars

\* C24: every step of calculateGrowthRates leaves the records alone and changes at
\* most the growthPercentage of clusters that are active; and when the run has
\* returned, every active cluster whose update was not rejected holds the growth
\* of its records, whichever updates were rejected before it.
C24_GrowthFrame ==
    /\ [][/\ posts' = posts
          /\ Len(clusters') = Len(clusters)
          /\ \A c \in 1..Len(clusters) :
                /\ ~clusters[c].isActive => clusters'[c] = clusters[c]
                /\ clusters'[c] = [clusters[c] EXCEPT
                                      !.growthPercentage = clusters'[c].growthPercentage]]_vars
    /\ []((pc[1] = "idle" /\ runs > 0) =>
             \A j \in 1..Len(batch[1]) :
                 batch[1][j].id \notin Range(failed[1]) =>
                     clusters[batch[1][j].id].growthPercentage
                         = calculateGrowth(batch[1][j].posts, now))

\* a run whose first update was rejected has stored a growth other than 0 for a
\* later cluster, and an inactive cluster with records is in the store
C24_RejectedThenUpdated ==
    /\ pc[1] = "idle"
    /\ Len(failed[1]) = 1
    /\ \E j \in 1..Len(batch[1]) :
          /\ batch[1][j].id > failed[1][1]
          /\ clusters[batch[1][j].id].growthPercentage # 0
    /\ \E c \in 1..Len(clusters) : ~clusters[c].isActive /\ Members(c) # {}

\* C25: in every state, every cluster has firstSeenAt <= lastSeenAt, and the
\* postedAt of every record assigned to it lies between the two.
C25_SeenWindow ==
    \A c \in 1..Len(clusters) :
        /\ clusters[c].firstSeenAt <= clusters[c].lastSeenAt
        /\ \A i \in Members(c) :
              /\ clusters[c].firstSeenAt <= posts[i].postedAt
              /\ posts[i].postedAt <= clusters[c].lastSeenAt

\* C26: whenever no clusterAll run is under way, every cluster of the store has at
\* least 3 records assigned to it.
C26_NoClusterBelowMinimum ==
    Returned(1) => \A c \in 1..Len(clusters) : Cardinality(Members(c)) >= MinClusterSize

\* C27: every record the scoring engine scored has relevance and quality of at
\* least 50, and the trend score of every group of at least 3 such records lies
\* in 21..84.
C27_TrendScoreRange ==
    /\ Len(output) >= 1 =>
           \A i \in 1..Len(output[1]) :
               output[1][i].relevanceScore >= 50 /\ output[1][i].qualityScore >= 50
    /\ Len(output) = 2 => output[2] \in 21..84

\* a group of at least 10 records, all of virality and relevance 100, scores 84
C27_TopOfTheRange ==
    /\ Len(output) = 2
    /\ input.size >= 10
    /\ \A i \in 1..input.size :
          output[1][i].viralityScore = 100 /\ output[1][i].relevanceScore = 100
    /\ output[2] = 84

\* C28: the growth calculateGrowthRates computes from the posts it includes, at
\* most 100 a cluster, is an integer from -100 to 9800.
C28_GrowthRange == output # <<>> => output[1] \in (0 - 100)..9800

\* 99 posts of the last 24 hours and 1 of the 24 hours before are included, an
\* older one is cut off: the growth is 9800
C28_TopGrowth ==
    /\ input.recent = 99 /\ input.previous = 1 /\ input.older = 1
    /\ output = <<9800>>

\* C29: in every state, whatever the overlap of processAll runs and whichever
\* writes the store rejected, at most one normalizedPost row refers to each
\* scrapedPost.
C29_OneRowPerScraped ==
    \A id \in 1..Len(input) : Cardinality(RowsOfScraped(id)) <= 1

\* C30: in every state, no interval is scheduled while isRunning is false, at most
\* one interval is scheduled, and when every call has returned and the last call
\* issued was stop(), no interval is scheduled.
C30_IntervalFollowsRunning ==
    /\ ~isRunning => Timers = {}
    /\ Cardinality(Timers) <= 1
    /\ ((\A p \in Procs : pc[p] = "idle") /\ output # <<>>) =>
           (output[Len(output)] = "stop" => Timers = {})

\* the row the upsert of `group` leaves when nothing rejects, from the rows before
UpsertedCluster(rows, group) ==
    IF ClusterIdByKey(rows, group.clusterKey) # 0
    THEN UpdatedCluster(rows[ClusterIdByKey(rows, group.clusterKey)],
                        GroupMetrics(GroupRows(group)))
    ELSE CreatedCluster(group.clusterKey, GroupMetrics(GroupRows(group)))

\* C10: when a step of the upsert of one group rejects, clusterAll does not
\* throw, and every other group of at least 3 posts of the batch ends with the
\* cluster row and the assignments it has when nothing rejects.
C10_OtherGroupsUnaffected ==
    /\ failed[1] # <<>> => pc[1] # "threw"
    /\ pc[1] \in {"done", "threw"} =>
           \A j \in 1..Len(groups[1]) :
               LET g == groups[1][j]
               IN (Len(g.posts) >= MinClusterSize /\ g.clusterKey \notin Range(failed[1])) =>
                      \E c \in 1..Len(clusters) :
                          /\ clusters[c] = UpsertedCluster(startClusters[1], g)
                          /\ \A i \in Range(g.posts) : posts[i].clusterId = c

\* the upsert of a group rejected and the run went on to upsert a later group
C10_WentOn ==
    /\ pc[1] = "done"
    /\ \E j, k \in 1..Len(groups[1]) :
           /\ j < k
           /\ failed[1] = <<groups[1][j].clusterKey>>
           /\ Len(groups[1][k].posts) >= MinClusterSize
           /\ \E c \in 1..Len(clusters) :
                  /\ clusters[c].clusterKey = groups[1][k].clusterKey
                  /\ \A i \in Range(groups[1][k].posts) : posts[i].clusterId = c

====
